---- MODULE Spec2Model ----
(***************************************************************************)
(* Model of the DryIce RTC / tamper-monitor driver (second half of         *)
(* drivers/input/imx_keypad.c): the register file of the unit, the         *)
(* write-completion protocol, the four recovery procedures, attach, the    *)
(* time accessor and the NVRAM word adapter; and of the keypad driver      *)
(* (first half of the file): the debouncing poller and its events.         *)
(*                                                                         *)
(* Bit-flag registers (DSR, DCR, DTCR, DIER) are sets of bit names, so     *)
(* that `a & b` is \cap, `a | b` is \cup and `a & ~b` is set difference.   *)
(* Value registers (DTCMR, DTCLR, DCAMR, DCALR, DGPR) are 32-bit integers. *)
(***************************************************************************)
EXTENDS Integers, Sequences, FiniteSets, TLC

(* ------------------------------ bounds -------------------------------- *)
\* the NVRAM adapter is called with lengths 0..MaxBytes
MaxBytes == 5
\* the monotonic clock advances in steps of TickNs nanoseconds
TickNs == 600000
\* the keypad matrix has KpRows rows (and the two columns of KpColSet), of
\* which at most MaxPressed keys are held down at a time
KpRows == 2
MaxPressed == 2
\* stable_count is a signed integer of CountBits bits
CountBits == 4
\* consecutive equal scans are counted up to RunCap
RunCap == 5

(* ------------------------- program constants -------------------------- *)
\* 0xFFFFFFFF; 32-bit register values are written as signed 32-bit integers
DCAMR_UNSET == -1
MSECOND == 1000000
ENODEV == 19
EIO == 5
EPERM == 1
EINVAL == 22
ENOMEM == 12
\* the keypad: scans that must agree, the keycode of an unused key, KPSR bits
IMX_KEYPAD_SCANS_FOR_STABILITY == 3
KEY_RESERVED == 0
KBD_STAT_KPKD == "KPKD"
KBD_STAT_KPKR == "KPKR"
KBD_STAT_KDSC == "KDSC"
KBD_STAT_KRSS == "KRSS"
KBD_STAT_KDIE == "KDIE"
KBD_STAT_KRIE == "KRIE"
\* the status bits of KPSR that are cleared by writing 1
KpW1C == {KBD_STAT_KPKD, KBD_STAT_KPKR, KBD_STAT_KDSC, KBD_STAT_KRSS}
\* iterations of the poll loop of clear_write_error, and its udelay
ClearPolls == 1000
ClearDelayNs == 10000
\* the only length the NVRAM adapter serves
WordBytes == 4

DCR_TDCHL == "TDCHL"
DCR_TDCSL == "TDCSL"
DCR_KSSL == "KSSL"
DCR_MCHL == "MCHL"
DCR_MCSL == "MCSL"
DCR_TCHL == "TCHL"
DCR_TCSL == "TCSL"
DCR_FSHL == "FSHL"
DCR_TCE == "TCE"
DCR_MCE == "MCE"

DSR_WTD == "WTD"
DSR_ETBD == "ETBD"
DSR_ETAD == "ETAD"
DSR_EBD == "EBD"
DSR_SAD == "SAD"
DSR_TTD == "TTD"
DSR_CTD == "CTD"
DSR_VTD == "VTD"
DSR_WBF == "WBF"
DSR_WNF == "WNF"
DSR_WCF == "WCF"
DSR_WEF == "WEF"
DSR_CAF == "CAF"
DSR_MCO == "MCO"
DSR_TCO == "TCO"
DSR_NVF == "NVF"
DSR_SVF == "SVF"

\* the tamper-class status bits tested and cleared by the invalid+failure
\* recovery
TamperStatus ==
    {DSR_WTD, DSR_ETBD, DSR_ETAD, DSR_EBD, DSR_SAD, DSR_TTD, DSR_CTD,
     DSR_VTD, DSR_MCO, DSR_TCO}

\* the status bits the "still some sources of pain" test leaves out
QuietStatus == {DSR_NVF, DSR_SVF, DSR_WBF, DSR_WNF, DSR_WCF, DSR_WEF}

\* lock bits of the control register: software can set them, only a reset
\* (soft lock) or a battery cycle (hard lock) clears them
DcrLocks ==
    {DCR_TDCHL, DCR_TDCSL, DCR_KSSL, DCR_MCHL, DCR_MCSL, DCR_TCHL,
     DCR_TCSL, DCR_FSHL}

\* the ten tamper sources of DTCR
DTCR_ALL == {"MOE", "TOE", "WTE", "ETBE", "ETAE", "EBE", "SAIE", "TTE", "CTE", "VTE"}

(* ------------------------------ state ---------------------------------- *)
VARIABLES
    hw,        \* the unit's registers
    pend,      \* the write on its way through the low-power domain, if any
    pc,        \* where the driver is
    log,       \* events of the operation in progress (or the last one)
    ret,       \* value returned by the last finished operation
    rcState,   \* <<value returned by di_handle_state>>, <<>> before it ran
    clk,       \* gating clock enabled
    nvmemReg,  \* nvstore registered with the nvmem framework
    rtcReg,    \* rtc registered with the rtc framework
    now,       \* get_time_ns()
    ww,        \* locals of dryice_rtc_set_time / di_write_wait
    buf,       \* caller's buffer of nvstore_read / nvstore_write
    keypad,    \* struct imx_keypad
    kpp        \* the keypad controller: KPSR; the events of the last poll
               \* (fired), its scan result (scan), how many scans in a row
               \* gave it (run), the last event reported for each key (last)

vars == <<hw, pend, pc, log, ret, rcState, clk, nvmemReg, rtcReg, now, ww, buf,
          keypad, kpp>>

Ev(k, r, v, h) == [k |-> k, r |-> r, v |-> v, dcr |-> h.DCR]

(* --------------------------- the hardware ------------------------------ *)
TimeLocked(h) == DCR_TCHL \in h.DCR \/ DCR_TCSL \in h.DCR
TamperLocked(h) == DCR_TDCHL \in h.DCR \/ DCR_TDCSL \in h.DCR
MonoLocked(h) == DCR_MCHL \in h.DCR \/ DCR_MCSL \in h.DCR

\* The registers once a write of val to reg has taken effect in the unit.
\* svfClears: whether the unit lets go of the security-violation flag.
HwApply(h, reg, val, svfClears) ==
    CASE reg = "DSR" ->
           [h EXCEPT !.DSR = h.DSR \ ((val \ {DSR_WCF, DSR_WBF, DSR_WNF})
                                       \ (IF svfClears THEN {} ELSE {DSR_SVF}))]
      [] reg = "DCR" ->
           [h EXCEPT !.DCR =
               ((h.DCR \cup val) \cap DcrLocks)
               \cup ((IF TimeLocked(h) THEN h.DCR ELSE val) \cap {DCR_TCE})
               \cup ((IF MonoLocked(h) THEN h.DCR ELSE val) \cap {DCR_MCE})]
      [] reg = "DTCR" -> IF TamperLocked(h) THEN h ELSE [h EXCEPT !.DTCR = val]
      [] reg = "DTCMR" -> IF TimeLocked(h) THEN h ELSE [h EXCEPT !.DTCMR = val]
      [] reg = "DTCLR" -> IF TimeLocked(h) THEN h ELSE [h EXCEPT !.DTCLR = val]
      [] reg = "DCAMR" -> [h EXCEPT !.DCAMR = val]
      [] reg = "DCALR" -> [h EXCEPT !.DCALR = val]
      [] reg = "DGPR" -> [h EXCEPT !.DGPR = val]
      [] reg = "DIER" -> [h EXCEPT !.DIER = val]

\* Completion of a write that went through the low-power domain sets WCF.
HwDone(h, reg, val, svfClears) ==
    LET g == HwApply(h, reg, val, svfClears)
    IN [g EXCEPT !.DSR = g.DSR \cup {DSR_WCF}]

\* Reading DSR clears WCF; no other read has an effect.
HwAfterRead(h, reg) ==
    IF reg = "DSR" THEN [h EXCEPT !.DSR = h.DSR \ {DSR_WCF}] ELSE h

(* ------------------------ register accessors --------------------------- *)
\* A machine state m is [hw, log, rc]; the C functions below are operators
\* from machine states to machine states, rc being the value returned.
ReadVal(m, reg) == m.hw[reg]

readl(m, reg) ==
    [m EXCEPT !.hw = HwAfterRead(m.hw, reg),
              !.log = Append(m.log, Ev("read", reg, m.hw[reg], m.hw))]

Say(m, k, r, v) == [m EXCEPT !.log = Append(m.log, Ev(k, r, v, m.hw))]

\* writel to DIER: at bus speed, in effect at once, WCF not set.
writel_DIER(m, val) ==
    [m EXCEPT !.hw = HwApply(m.hw, "DIER", val, TRUE),
              !.log = Append(m.log, Ev("write", "DIER", val, m.hw))]

\* a write to the unit that does not wait for it to take effect
di_write_busy_wait_no_delay(m, val, reg, svfClears) ==
    [m EXCEPT !.hw = HwDone(m.hw, reg, val, svfClears),
              !.log = Append(m.log, Ev("write", reg, val, m.hw))]

\* writel, then udelay(130): the write is through when the delay is over.
di_write_busy_wait(m, val, reg, svfClears) ==
    [m EXCEPT !.hw = HwDone(m.hw, reg, val, svfClears),
              !.log = Append(Append(m.log, Ev("write", reg, val, m.hw)),
                             Ev("settle", reg, 130, m.hw))]

\* a diagnostic that is never emitted
di_what_is_to_be_done_silent(m, power_supply) == m

di_what_is_to_be_done(m, power_supply) == Say(m, "emerg", power_supply, 0)

Return(m, rc) == [m EXCEPT !.rc = rc]

(* ------------------------ recovery procedures -------------------------- *)
\* a failure handler that looks at the tamper hard lock instead of FSHL
di_handle_failure_state_tdchl(m, dsr) ==
    LET m0 == Say(m, "call", "di_handle_failure_state", 0)
        dcr == ReadVal(m0, "DCR")
        m1 == readl(m0, "DCR")
    IN IF DCR_TDCHL \in dcr
       THEN Return(di_what_is_to_be_done(m1, "battery"), -ENODEV)
       ELSE Return(di_what_is_to_be_done(m1, "main"), -ENODEV)

di_handle_failure_state(m, dsr) ==
    LET m0 == Say(m, "call", "di_handle_failure_state", 0)
        dcr == ReadVal(m0, "DCR")
        m1 == readl(m0, "DCR")
    IN IF DCR_FSHL \in dcr
       THEN Return(di_what_is_to_be_done(m1, "battery"), -ENODEV)
       ELSE Return(di_what_is_to_be_done(m1, "main"), -ENODEV)

\* a valid-state handler that forgets the pending alarm flag
di_handle_valid_state_keeps_caf(m, dsr) ==
    LET m0 == Say(m, "call", "di_handle_valid_state", 0)
        m1 == di_write_busy_wait(m0, DCAMR_UNSET, "DCAMR", TRUE)
        m2 == di_write_busy_wait(m1, 0, "DCALR", TRUE)
    IN Return(m2, 0)

di_handle_valid_state(m, dsr) ==
    LET m0 == Say(m, "call", "di_handle_valid_state", 0)
        m1 == di_write_busy_wait(m0, DCAMR_UNSET, "DCAMR", TRUE)
        m2 == di_write_busy_wait(m1, 0, "DCALR", TRUE)
        m3 == IF DSR_CAF \in dsr
              THEN di_write_busy_wait(m2, {DSR_CAF}, "DSR", TRUE)
              ELSE m2
    IN Return(m3, 0)

\* an invalid-state recovery that restarts the counter from zero
di_handle_invalid_state_zero_sec(m, dsr) ==
    LET m0 == Say(m, "call", "di_handle_invalid_state", 0)
        m1 == di_write_busy_wait(m0, {}, "DTCR", TRUE)
        m2 == di_write_busy_wait(m1, {DCR_TDCSL}, "DCR", TRUE)
        sec == ReadVal(m2, "DTCMR")
        m3 == readl(m2, "DTCMR")
        m4 == IF sec # 0 THEN Say(m3, "warn", "violation at seconds", sec) ELSE m3
        dcr == ReadVal(m4, "DCR")
        m5 == readl(m4, "DCR")
        m6 == di_write_busy_wait(m5, {DSR_NVF}, "DSR", TRUE)
        m7 == di_write_busy_wait(m6, {DSR_TCO}, "DSR", TRUE)
        m8 == di_write_busy_wait(m7, dcr \cup {DCR_TCE}, "DCR", TRUE)
        m9 == di_write_busy_wait(m8, 0, "DTCMR", TRUE)
        dsr2 == ReadVal(m9, "DSR")
        m10 == readl(m9, "DSR")
    IN IF DCR_TCE \notin dcr /\ DCR_TCHL \in dcr
       THEN Return(di_what_is_to_be_done(m5, "battery"), -ENODEV)
       ELSE IF DCR_TCE \notin dcr /\ DCR_TCSL \in dcr
       THEN Return(di_what_is_to_be_done(m5, "main"), -ENODEV)
       ELSE di_handle_valid_state(m10, dsr2)

\* an invalid-state recovery that returns without preparing the valid state
di_handle_invalid_state_no_valid(m, dsr) ==
    LET m0 == Say(m, "call", "di_handle_invalid_state", 0)
        m1 == di_write_busy_wait(m0, {}, "DTCR", TRUE)
        m2 == di_write_busy_wait(m1, {DCR_TDCSL}, "DCR", TRUE)
        sec == ReadVal(m2, "DTCMR")
        m3 == readl(m2, "DTCMR")
        m4 == IF sec # 0 THEN Say(m3, "warn", "violation at seconds", sec) ELSE m3
        dcr == ReadVal(m4, "DCR")
        m5 == readl(m4, "DCR")
        m6 == di_write_busy_wait(m5, {DSR_NVF}, "DSR", TRUE)
        m7 == di_write_busy_wait(m6, {DSR_TCO}, "DSR", TRUE)
        m8 == di_write_busy_wait(m7, dcr \cup {DCR_TCE}, "DCR", TRUE)
        m9 == di_write_busy_wait(m8, sec, "DTCMR", TRUE)
        dsr2 == ReadVal(m9, "DSR")
        m10 == readl(m9, "DSR")
    IN IF DCR_TCE \notin dcr /\ DCR_TCHL \in dcr
       THEN Return(di_what_is_to_be_done(m5, "battery"), -ENODEV)
       ELSE IF DCR_TCE \notin dcr /\ DCR_TCSL \in dcr
       THEN Return(di_what_is_to_be_done(m5, "main"), -ENODEV)
       ELSE Return(m10, 0)

\* an invalid-state recovery that tests the time locks after its writes
di_handle_invalid_state_late_check(m, dsr) ==
    LET m0 == Say(m, "call", "di_handle_invalid_state", 0)
        m1 == di_write_busy_wait(m0, {}, "DTCR", TRUE)
        m2 == di_write_busy_wait(m1, {DCR_TDCSL}, "DCR", TRUE)
        sec == ReadVal(m2, "DTCMR")
        m3 == readl(m2, "DTCMR")
        m4 == IF sec # 0 THEN Say(m3, "warn", "violation at seconds", sec) ELSE m3
        dcr == ReadVal(m4, "DCR")
        m5 == readl(m4, "DCR")
        m6 == di_write_busy_wait(m5, {DSR_NVF}, "DSR", TRUE)
        m7 == di_write_busy_wait(m6, {DSR_TCO}, "DSR", TRUE)
        m8 == di_write_busy_wait(m7, dcr \cup {DCR_TCE}, "DCR", TRUE)
        m9 == di_write_busy_wait(m8, sec, "DTCMR", TRUE)
        dsr2 == ReadVal(m9, "DSR")
        m10 == readl(m9, "DSR")
    IN IF DCR_TCE \notin dcr /\ DCR_TCHL \in dcr
       THEN Return(di_what_is_to_be_done(m9, "battery"), -ENODEV)
       ELSE IF DCR_TCE \notin dcr /\ DCR_TCSL \in dcr
       THEN Return(di_what_is_to_be_done(m9, "main"), -ENODEV)
       ELSE di_handle_valid_state(m10, dsr2)

\* an invalid-state recovery that tests the time locks whatever TCE is
di_handle_invalid_state_locks_always(m, dsr) ==
    LET m0 == Say(m, "call", "di_handle_invalid_state", 0)
        m1 == di_write_busy_wait(m0, {}, "DTCR", TRUE)
        m2 == di_write_busy_wait(m1, {DCR_TDCSL}, "DCR", TRUE)
        sec == ReadVal(m2, "DTCMR")
        m3 == readl(m2, "DTCMR")
        m4 == IF sec # 0 THEN Say(m3, "warn", "violation at seconds", sec) ELSE m3
        dcr == ReadVal(m4, "DCR")
        m5 == readl(m4, "DCR")
        m6 == di_write_busy_wait(m5, {DSR_NVF}, "DSR", TRUE)
        m7 == di_write_busy_wait(m6, {DSR_TCO}, "DSR", TRUE)
        m8 == di_write_busy_wait(m7, dcr \cup {DCR_TCE}, "DCR", TRUE)
        m9 == di_write_busy_wait(m8, sec, "DTCMR", TRUE)
        dsr2 == ReadVal(m9, "DSR")
        m10 == readl(m9, "DSR")
    IN IF DCR_TCHL \in dcr
       THEN Return(di_what_is_to_be_done(m5, "battery"), -ENODEV)
       ELSE IF DCR_TCSL \in dcr
       THEN Return(di_what_is_to_be_done(m5, "main"), -ENODEV)
       ELSE di_handle_valid_state(m10, dsr2)

\* an invalid-state recovery that enables the counter before the state is handled
di_handle_invalid_state_enable_first(m, dsr) ==
    LET m0 == Say(m, "call", "di_handle_invalid_state", 0)
        m1 == di_write_busy_wait(m0, {}, "DTCR", TRUE)
        m2 == di_write_busy_wait(m1, {DCR_TDCSL}, "DCR", TRUE)
        sec == ReadVal(m2, "DTCMR")
        m3 == readl(m2, "DTCMR")
        m4 == IF sec # 0 THEN Say(m3, "warn", "violation at seconds", sec) ELSE m3
        dcr == ReadVal(m4, "DCR")
        m5 == readl(m4, "DCR")
        m6 == di_write_busy_wait(m5, dcr \cup {DCR_TCE}, "DCR", TRUE)
        m7 == di_write_busy_wait(m6, {DSR_NVF}, "DSR", TRUE)
        m8 == di_write_busy_wait(m7, {DSR_TCO}, "DSR", TRUE)
        m9 == di_write_busy_wait(m8, sec, "DTCMR", TRUE)
        dsr2 == ReadVal(m9, "DSR")
        m10 == readl(m9, "DSR")
    IN IF DCR_TCE \notin dcr /\ DCR_TCHL \in dcr
       THEN Return(di_what_is_to_be_done(m5, "battery"), -ENODEV)
       ELSE IF DCR_TCE \notin dcr /\ DCR_TCSL \in dcr
       THEN Return(di_what_is_to_be_done(m5, "main"), -ENODEV)
       ELSE di_handle_valid_state(m10, dsr2)

\* an invalid-state recovery that gives up on a time lock before it writes anything
di_handle_invalid_state_early_check(m, dsr) ==
    LET m0 == Say(m, "call", "di_handle_invalid_state", 0)
        m1 == di_write_busy_wait(m0, {}, "DTCR", TRUE)
        m2 == di_write_busy_wait(m1, {DCR_TDCSL}, "DCR", TRUE)
        sec == ReadVal(m2, "DTCMR")
        m3 == readl(m2, "DTCMR")
        m4 == IF sec # 0 THEN Say(m3, "warn", "violation at seconds", sec) ELSE m3
        dcr == ReadVal(m4, "DCR")
        m5 == readl(m4, "DCR")
        m6 == di_write_busy_wait(m5, {DSR_NVF}, "DSR", TRUE)
        m7 == di_write_busy_wait(m6, {DSR_TCO}, "DSR", TRUE)
        m8 == di_write_busy_wait(m7, dcr \cup {DCR_TCE}, "DCR", TRUE)
        m9 == di_write_busy_wait(m8, sec, "DTCMR", TRUE)
        dsr2 == ReadVal(m9, "DSR")
        m10 == readl(m9, "DSR")
    IN IF DCR_TCE \notin dcr /\ DCR_TCHL \in dcr
       THEN Return(di_what_is_to_be_done(m0, "battery"), -ENODEV)
       ELSE IF DCR_TCE \notin dcr /\ DCR_TCSL \in dcr
       THEN Return(di_what_is_to_be_done(m0, "main"), -ENODEV)
       ELSE di_handle_valid_state(m10, dsr2)

di_handle_invalid_state(m, dsr) ==
    LET m0 == Say(m, "call", "di_handle_invalid_state", 0)
        m1 == di_write_busy_wait(m0, {}, "DTCR", TRUE)
        m2 == di_write_busy_wait(m1, {DCR_TDCSL}, "DCR", TRUE)
        sec == ReadVal(m2, "DTCMR")
        m3 == readl(m2, "DTCMR")
        m4 == IF sec # 0 THEN Say(m3, "warn", "violation at seconds", sec) ELSE m3
        dcr == ReadVal(m4, "DCR")
        m5 == readl(m4, "DCR")
        m6 == di_write_busy_wait(m5, {DSR_NVF}, "DSR", TRUE)
        m7 == di_write_busy_wait(m6, {DSR_TCO}, "DSR", TRUE)
        m8 == di_write_busy_wait(m7, dcr \cup {DCR_TCE}, "DCR", TRUE)
        m9 == di_write_busy_wait(m8, sec, "DTCMR", TRUE)
        dsr2 == ReadVal(m9, "DSR")
        m10 == readl(m9, "DSR")
    IN IF DCR_TCE \notin dcr /\ DCR_TCHL \in dcr
       THEN Return(di_what_is_to_be_done(m5, "battery"), -ENODEV)
       ELSE IF DCR_TCE \notin dcr /\ DCR_TCSL \in dcr
       THEN Return(di_what_is_to_be_done(m5, "main"), -ENODEV)
       ELSE di_handle_valid_state(m10, dsr2)

\* an invalid+failure recovery that clears SVF before the tamper-class bits
di_handle_invalid_and_failure_state_svf_first(m, dsr, svfClears) ==
    LET m0 == Say(m, "call", "di_handle_invalid_and_failure_state", 0)
        tampered == (dsr \cap TamperStatus) # {}
        dcr == ReadVal(m0, "DCR")
        m1 == IF tampered THEN readl(m0, "DCR") ELSE m0
        m2 == di_write_busy_wait(m1, {}, "DTCR", TRUE)
        m3 == di_write_busy_wait(m2, {DSR_SVF}, "DSR", svfClears)
        dsrA == ReadVal(m3, "DSR")
        m4 == readl(m3, "DSR")
        m5 == IF (dsrA \ QuietStatus) # {}
              THEN Say(m4, "warn", "still some sources of pain", dsrA \ QuietStatus)
              ELSE m4
        m6 == di_write_busy_wait(m5, dsr \cap TamperStatus, "DSR", TRUE)
        dsrB == ReadVal(m6, "DSR")
        m7 == readl(m6, "DSR")
    IN IF tampered /\ DCR_TDCHL \in dcr
       THEN Return(di_what_is_to_be_done(m1, "battery"), -ENODEV)
       ELSE IF tampered /\ DCR_TDCSL \in dcr
       THEN Return(di_what_is_to_be_done(m1, "main"), -ENODEV)
       ELSE IF DSR_SVF \in dsrB
       THEN Return(di_what_is_to_be_done(
                      Say(m7, "crit", "cannot clear the security violation flag", 0),
                      "battery"), -ENODEV)
       ELSE di_handle_invalid_state(m7, dsrB)

\* an invalid+failure recovery that tests the soft lock before the hard lock
di_handle_invalid_and_failure_state_soft_first(m, dsr, svfClears) ==
    LET m0 == Say(m, "call", "di_handle_invalid_and_failure_state", 0)
        tampered == (dsr \cap TamperStatus) # {}
        dcr == ReadVal(m0, "DCR")
        m1 == IF tampered THEN readl(m0, "DCR") ELSE m0
        m2 == di_write_busy_wait(m1, {}, "DTCR", TRUE)
        m3 == di_write_busy_wait(m2, dsr \cap TamperStatus, "DSR", TRUE)
        dsrA == ReadVal(m3, "DSR")
        m4 == readl(m3, "DSR")
        m5 == IF (dsrA \ QuietStatus) # {}
              THEN Say(m4, "warn", "still some sources of pain", dsrA \ QuietStatus)
              ELSE m4
        m6 == di_write_busy_wait(m5, {DSR_SVF}, "DSR", svfClears)
        dsrB == ReadVal(m6, "DSR")
        m7 == readl(m6, "DSR")
    IN IF tampered /\ DCR_TDCSL \in dcr
       THEN Return(di_what_is_to_be_done(m1, "main"), -ENODEV)
       ELSE IF tampered /\ DCR_TDCHL \in dcr
       THEN Return(di_what_is_to_be_done(m1, "battery"), -ENODEV)
       ELSE IF DSR_SVF \in dsrB
       THEN Return(di_what_is_to_be_done(
                      Say(m7, "crit", "cannot clear the security violation flag", 0),
                      "battery"), -ENODEV)
       ELSE di_handle_invalid_state(m7, dsrB)

\* an invalid+failure recovery that does not look at the status it read
\* after clearing the security-violation flag
di_handle_invalid_and_failure_state_no_verify(m, dsr, svfClears) ==
    LET m0 == Say(m, "call", "di_handle_invalid_and_failure_state", 0)
        tampered == (dsr \cap TamperStatus) # {}
        dcr == ReadVal(m0, "DCR")
        m1 == IF tampered THEN readl(m0, "DCR") ELSE m0
        m2 == di_write_busy_wait(m1, {}, "DTCR", TRUE)
        m3 == di_write_busy_wait(m2, dsr \cap TamperStatus, "DSR", TRUE)
        dsrA == ReadVal(m3, "DSR")
        m4 == readl(m3, "DSR")
        m5 == IF (dsrA \ QuietStatus) # {}
              THEN Say(m4, "warn", "still some sources of pain", dsrA \ QuietStatus)
              ELSE m4
        m6 == di_write_busy_wait(m5, {DSR_SVF}, "DSR", svfClears)
        dsrB == ReadVal(m6, "DSR")
        m7 == readl(m6, "DSR")
    IN IF tampered /\ DCR_TDCHL \in dcr
       THEN Return(di_what_is_to_be_done(m1, "battery"), -ENODEV)
       ELSE IF tampered /\ DCR_TDCSL \in dcr
       THEN Return(di_what_is_to_be_done(m1, "main"), -ENODEV)
       ELSE di_handle_invalid_state(m7, dsrB)

di_handle_invalid_and_failure_state(m, dsr, svfClears) ==
    LET m0 == Say(m, "call", "di_handle_invalid_and_failure_state", 0)
        tampered == (dsr \cap TamperStatus) # {}
        dcr == ReadVal(m0, "DCR")
        m1 == IF tampered THEN readl(m0, "DCR") ELSE m0
        m2 == di_write_busy_wait(m1, {}, "DTCR", TRUE)
        m3 == di_write_busy_wait(m2, dsr \cap TamperStatus, "DSR", TRUE)
        dsrA == ReadVal(m3, "DSR")
        m4 == readl(m3, "DSR")
        m5 == IF (dsrA \ QuietStatus) # {}
              THEN Say(m4, "warn", "still some sources of pain", dsrA \ QuietStatus)
              ELSE m4
        m6 == di_write_busy_wait(m5, {DSR_SVF}, "DSR", svfClears)
        dsrB == ReadVal(m6, "DSR")
        m7 == readl(m6, "DSR")
    IN IF tampered /\ DCR_TDCHL \in dcr
       THEN Return(di_what_is_to_be_done(m1, "battery"), -ENODEV)
       ELSE IF tampered /\ DCR_TDCSL \in dcr
       THEN Return(di_what_is_to_be_done(m1, "main"), -ENODEV)
       ELSE IF DSR_SVF \in dsrB
       THEN Return(di_what_is_to_be_done(
                      Say(m7, "crit", "cannot clear the security violation flag", 0),
                      "battery"), -ENODEV)
       ELSE di_handle_invalid_state(m7, dsrB)

\* a switch on a mask that also takes in the time-overflow bit
DispatchWideMask(dsr) ==
    LET sel == dsr \cap {DSR_NVF, DSR_SVF, DSR_TCO}
    IN CASE sel = {DSR_NVF} -> "di_handle_invalid_state"
         [] sel = {DSR_SVF} -> "di_handle_failure_state"
         [] sel = {DSR_NVF, DSR_SVF} -> "di_handle_invalid_and_failure_state"
         [] OTHER -> "di_handle_valid_state"

\* the switch of di_handle_state: the procedure the status selects
Dispatch(dsr) ==
    LET sel == dsr \cap {DSR_NVF, DSR_SVF}
    IN CASE sel = {DSR_NVF} -> "di_handle_invalid_state"
         [] sel = {DSR_SVF} -> "di_handle_failure_state"
         [] sel = {DSR_NVF, DSR_SVF} -> "di_handle_invalid_and_failure_state"
         [] OTHER -> "di_handle_valid_state"

di_handle_state(m, svfClears) ==
    LET dsr == ReadVal(m, "DSR")
        m1 == readl(m, "DSR")
        proc == Dispatch(dsr)
        m2 == Say(m1, "dispatch", proc, 0)
    IN CASE proc = "di_handle_invalid_state" -> di_handle_invalid_state(m2, dsr)
         [] proc = "di_handle_failure_state" -> di_handle_failure_state(m2, dsr)
         [] proc = "di_handle_invalid_and_failure_state" ->
                di_handle_invalid_and_failure_state(m2, dsr, svfClears)
         [] OTHER -> di_handle_valid_state(m2, dsr)

(* ----------------------- write-completion protocol --------------------- *)
\* is_timeout(start, offset) of the monotonic clock, read at time t
is_timeout(t, start, offset) == t - start > offset

\* a poll loop that tests the timeout before it looks at the flags
PollTimeoutFirst(dsr, timedOut) ==
    IF timedOut THEN "timeout"
    ELSE IF (dsr \cap {DSR_WCF, DSR_WEF}) # {} THEN "break"
    ELSE "again"

\* a poll loop that has no timeout
PollNoTimeout(dsr, timedOut) ==
    IF (dsr \cap {DSR_WCF, DSR_WEF}) # {} THEN "break" ELSE "again"

\* What one pass of the poll loop of di_write_wait decides from the status
\* snapshot it read: leave the loop ("break"), give up, or poll again.
PollDecision(dsr, timedOut) ==
    IF (dsr \cap {DSR_WCF, DSR_WEF}) # {} THEN "break"
    ELSE IF timedOut THEN "timeout"
    ELSE "again"

\* a return value that takes write-complete for success whatever else is set
WriteWaitRcAnyWcf(dsr) == IF DSR_WCF \in dsr THEN 0 ELSE -EIO

\* The value di_write_wait returns once the loop was left on snapshot dsr.
WriteWaitRc(dsr) == IF DSR_WEF \in dsr THEN -EIO ELSE 0

\* a result that a cleared error flag turns into success
RcAfterClearForgives(rc, dsr) == IF DSR_WEF \notin dsr THEN 0 ELSE rc

\* rc of di_write_wait after clear_write_error left the status at dsr:
\* clear_write_error returns nothing, rc stays what it was set to
RcAfterClear(rc, dsr) == rc

\* The unit completing every pending write, oldest first.
RECURSIVE HwDrain(_, _)
HwDrain(h, q) ==
    IF q = <<>> THEN h
    ELSE HwDrain(HwDone(h, Head(q).reg, Head(q).val, TRUE), Tail(q))

\* writel to a register of the low-power domain: the write is on its way
\* until the unit completes it. A write issued while another one is still
\* on its way is a write error: WEF is set and the write is lost.
writel(h, q, reg, val) ==
    IF q = <<>>
    THEN [hw |-> h, pend |-> <<[reg |-> reg, val |-> val]>>]
    ELSE [hw |-> [h EXCEPT !.DSR = h.DSR \cup {DSR_WEF}], pend |-> q]

\* The poll loop of clear_write_error from iteration cnt on. The unit lets
\* the pending write through just before poll number doneAt (never, if
\* doneAt >= ClearPolls). c is [hw, pend, log, polls, ns]. Between two polls
\* at which the unit does nothing the status read is the same, so the
\* iterations up to the next poll at which it may differ are taken at once.
RECURSIVE ClearLoop(_, _, _)
ClearLoop(c, cnt, doneAt) ==
    IF cnt >= ClearPolls
    THEN [c EXCEPT !.log = Append(c.log, Ev("err", "cannot clear write-error flag", 0, c.hw))]
    ELSE LET h0 == IF cnt = doneAt THEN HwDrain(c.hw, c.pend) ELSE c.hw
             q0 == IF cnt = doneAt THEN <<>> ELSE c.pend
             dsr == h0.DSR
             c1 == [c EXCEPT !.hw = HwAfterRead(h0, "DSR"), !.pend = q0,
                             !.polls = c.polls + 1,
                             !.log = Append(c.log, Ev("read", "DSR", dsr, h0))]
             next == IF cnt < doneAt /\ doneAt < ClearPolls THEN doneAt ELSE ClearPolls
             same == next - (cnt + 1)
         IN IF DSR_WEF \notin dsr
            THEN c1
            ELSE ClearLoop([c1 EXCEPT !.polls = c1.polls + same,
                                      !.ns = c1.ns + (same + 1) * ClearDelayNs],
                           next, doneAt)

clear_write_error(h, q, l, doneAt) ==
    LET l1 == Append(Append(l, Ev("warn", "register write error", 0, h)),
                     Ev("write", "DSR", {DSR_WEF}, h))
        w == writel(h, q, "DSR", {DSR_WEF})
        c == ClearLoop([hw |-> w.hw, pend |-> w.pend, log |-> l1, polls |-> 0, ns |-> 0],
                       0, doneAt)
    IN [c EXCEPT !.log = Append(c.log, Ev("ret", "clear_write_error",
                                          [polls |-> c.polls, ns |-> c.ns], c.hw))]

(* ------------------------------ accessors ------------------------------ *)
\* The lock test of dryice_rtc_set_time on the control and status it read.
SetTimeGate(dcr, dsr) ==
    IF DCR_TCE \notin dcr \/ DSR_SVF \in dsr
    THEN IF DCR_TCHL \in dcr THEN "battery"
         ELSE IF DCR_TCSL \in dcr \/ DSR_SVF \in dsr THEN "main"
         ELSE "go"
    ELSE "go"

\* The idx-th confirmed write of dryice_rtc_set_time.
SetTimeWrite(idx, secs, h) ==
    CASE idx = 1 -> [reg |-> "DTCLR", val |-> 0]
      [] idx = 2 -> [reg |-> "DTCMR", val |-> secs]
      [] idx = 3 -> [reg |-> "DCR", val |-> h.DCR \cup {DCR_TCE}]

\* value returned by nvstore_write / nvstore_read for a length
nvstore_rc(bytes) == 0

\* whether nvstore_write / nvstore_read touch DGPR for a length
nvstore_serves(bytes) == bytes = WordBytes

(* ---------------------------- i.MX keypad ------------------------------ *)
\* Masks and matrix columns of the keypad driver are sets of row (column)
\* numbers; a matrix state maps each column to the set of its rows read as
\* pressed.
KpRowSet == 0..(KpRows - 1)
KpColSet == {0, 1}
KpKeys == KpRowSet \X KpColSet
KpNoKeys == [c \in KpColSet |-> {}]

\* int stable_count, at the width of the model; the increment wraps
KpInt(n) ==
    LET half == 2 ^ (CountBits - 1)
    IN ((n + half) % (2 * half)) - half

\* writew to KPSR: the four status bits are cleared by writing 1 to them,
\* the other bits take the value written
writew_KPSR(cur, v) == ((cur \cap KpW1C) \ v) \cup (v \ KpW1C)

\* the status register after imx_keypad_config
imx_keypad_config(kpsr) ==
    LET v == kpsr \cup KpW1C
        a == writew_KPSR(kpsr, v)
    IN writew_KPSR(a, (v \cup {KBD_STAT_KDIE}) \ {KBD_STAT_KRIE})

\* the status register after imx_keypad_inhibit
imx_keypad_inhibit(kpsr) ==
    writew_KPSR(kpsr, kpsr \ {KBD_STAT_KRIE, KBD_STAT_KDIE})

\* platform keymaps KEY(row, col, code): one key; two keys on the diagonal
\* (both rows and both columns enabled); two keys of row 0
Keymaps ==
    { {<<0, 0>>}, {<<0, 0>>, <<1, 1>>}, {<<0, 0>>, <<0, 1>>} }

\* keycodes[] as matrix_keypad_build_keymap leaves it
KpKeycodes(km) ==
    [k \in KpKeys |-> IF k \in km THEN 2 + k[1] + k[2] ELSE KEY_RESERVED]

\* struct imx_keypad after imx_keypad_probe: xzalloc, keymap, enabled rows
\* and columns
imx_keypad_probe(km) ==
    LET codes == KpKeycodes(km)
        used == {k \in KpKeys : codes[k] # KEY_RESERVED}
    IN [stable_count |-> 0,
        rows_en_mask |-> {k[1] : k \in used},
        cols_en_mask |-> {k[2] : k \in used},
        keycodes |-> codes,
        matrix_stable_state |-> KpNoKeys,
        matrix_unstable_state |-> KpNoKeys]

\* the new matrix state for the keys held down: enabled columns only,
\* rows masked by rows_en_mask; the other columns stay 0 from the memset
imx_keypad_scan_matrix(k, pressed) ==
    [c \in KpColSet |->
        IF c \in k.cols_en_mask
        THEN {r \in k.rows_en_mask : <<r, c>> \in pressed}
        ELSE {}]

\* the keys in the order the loops of imx_keypad_fire_events visit them
KeyOrder ==
    [i \in 1..(KpRows * Cardinality(KpColSet)) |->
        <<(i - 1) % KpRows, (i - 1) \div KpRows>>]

\* an imx_keypad_fire_events that reports every key found pressed and
\* every key found changed
imx_keypad_fire_events_all_pressed(k, vol) ==
    LET changed(key) ==
            /\ key[2] \in k.cols_en_mask
            /\ key[1] \in k.rows_en_mask
            /\ \/ (key[1] \in k.matrix_stable_state[key[2]]) # (key[1] \in vol[key[2]])
               \/ key[1] \in vol[key[2]]
        sel == SelectSeq(KeyOrder, changed)
    IN [i \in 1..Len(sel) |->
           [row |-> sel[i][1], col |-> sel[i][2],
            code |-> k.keycodes[sel[i]],
            value |-> sel[i][1] \in vol[sel[i][2]]]]

\* the events of imx_keypad_fire_events: one input_report_key_event per
\* enabled key whose bit differs between the stable and the new state
imx_keypad_fire_events(k, vol) ==
    LET changed(key) ==
            /\ key[2] \in k.cols_en_mask
            /\ key[1] \in k.rows_en_mask
            /\ (key[1] \in k.matrix_stable_state[key[2]]) # (key[1] \in vol[key[2]])
        sel == SelectSeq(KeyOrder, changed)
    IN [i \in 1..Len(sel) |->
           [row |-> sel[i][1], col |-> sel[i][2],
            code |-> k.keycodes[sel[i]],
            value |-> sel[i][1] \in vol[sel[i][2]]]]

\* state_changed of imx_keypad_check_for_events
KpStateChanged(k, vol) ==
    \E c \in k.cols_en_mask : k.matrix_unstable_state[c] # vol[c]

\* a debounce that keeps counting when the scan differs
KpDebounceKeepsCount(k, vol) ==
    IF KpStateChanged(k, vol)
    THEN [k EXCEPT !.matrix_unstable_state = vol,
                   !.stable_count = KpInt(k.stable_count + 1)]
    ELSE [k EXCEPT !.stable_count = KpInt(k.stable_count + 1)]

\* (re)begin the debouncing on a changed scan, else count the scan
KpDebounce(k, vol) ==
    IF KpStateChanged(k, vol)
    THEN [k EXCEPT !.matrix_unstable_state = vol, !.stable_count = 0]
    ELSE [k EXCEPT !.stable_count = KpInt(k.stable_count + 1)]

\* the status register after the interrupt set-up that ends a stable scan
KpsrRearm(kpsr, isZero) ==
    LET ack == IF isZero THEN {KBD_STAT_KPKD, KBD_STAT_KDSC}
               ELSE {KBD_STAT_KPKR, KBD_STAT_KRSS}
        on == IF isZero THEN KBD_STAT_KDIE ELSE KBD_STAT_KRIE
        off == IF isZero THEN KBD_STAT_KRIE ELSE KBD_STAT_KDIE
        a == writew_KPSR(kpsr, kpsr \cup ack)
    IN writew_KPSR(a, (a \cup {on}) \ {off})

\* imx_keypad_check_for_events on the keys held down: the driver state, the
\* status register and the events reported
imx_keypad_check_for_events(k, kpsr, pressed) ==
    LET vol == imx_keypad_scan_matrix(k, pressed)
        k1 == KpDebounce(k, vol)
        fire == k1.stable_count = IMX_KEYPAD_SCANS_FOR_STABILITY
    IN IF k1.stable_count < IMX_KEYPAD_SCANS_FOR_STABILITY
       THEN [keypad |-> k1, KPSR |-> kpsr, fired |-> <<>>]
       ELSE [keypad |-> IF fire THEN [k1 EXCEPT !.matrix_stable_state = vol] ELSE k1,
             KPSR |-> KpsrRearm(kpsr, vol = KpNoKeys),
             fired |-> IF fire THEN imx_keypad_fire_events(k1, vol) ELSE <<>>]

\* the keys that can be held down at the time of a scan
KpPressed == {p \in SUBSET KpKeys : Cardinality(p) <= MaxPressed}

\* the keypad after imx_keypad_probe for a keymap, nothing polled yet
KpBoot ==
    [KPSR |-> imx_keypad_inhibit(imx_keypad_config({})),
     fired |-> <<>>,
     scan |-> <<>>,
     run |-> 0,
     last |-> [k \in KpKeys |-> "none"]]

(* ------------------------------ inputs --------------------------------- *)
InitTamper == {{}, {DSR_WTD}, {DSR_TCO, DSR_MCO}}
InitDSR ==
    {c \cup t \cup a : c \in SUBSET {DSR_NVF, DSR_SVF}, t \in InitTamper,
                       a \in SUBSET {DSR_CAF}}
InitDCR == SUBSET {DCR_TDCHL, DCR_TDCSL, DCR_TCHL, DCR_TCSL, DCR_FSHL, DCR_TCE}
InitDTCR == {{}, {"WTE", "VTE"}}
InitSecs == {0, 12345}
InitAlarm == {<<0, 0>>, <<12345, 9>>}
SetSecs == {777}
NvVals == {0, 305419896}
\* poll number of clear_write_error before which the unit completes the
\* pending write
DoneAt == {0, ClearPolls - 1, ClearPolls}

\* the registers the unit may hold when the driver attaches: the flags of
\* the write path (WBF, WNF, WCF) are clear after the system reset
BootHw ==
    {[DTCMR |-> s, DTCLR |-> 5, DCAMR |-> al[1], DCALR |-> al[2], DCR |-> c,
      DSR |-> d, DIER |-> {"CAIE", "SVIE"}, DTCR |-> t, DGPR |-> 0] :
     s \in InitSecs, al \in InitAlarm, c \in InitDCR, d \in InitDSR,
     t \in InitDTCR}

ww0 == [idx |-> 0, secs |-> 0, start |-> 0]

Init ==
    /\ hw \in BootHw
    /\ pend = <<>>
    /\ pc = "probe"
    /\ log = <<>>
    /\ ret = 0
    /\ rcState = <<>>
    /\ clk = FALSE
    /\ nvmemReg = FALSE
    /\ rtcReg = FALSE
    /\ now = 0
    /\ ww = ww0
    /\ buf = 0
    /\ keypad = imx_keypad_probe({<<0, 0>>})
    /\ kpp = KpBoot

(* ------------------------------- attach -------------------------------- *)
\* dryice_rtc_probe up to clk_enable: the memory resource, the clock.
ProbeAcquire ==
    /\ pc = "probe"
    /\ \E ok \in BOOLEAN :
         IF ok THEN /\ clk' = TRUE
                    /\ pc' = "init_hw"
                    /\ ret' = ret
               ELSE /\ clk' = FALSE
                    /\ pc' = "failed"
                    /\ ret' = -ENOMEM
    /\ UNCHANGED <<hw, pend, log, rcState, nvmemReg, rtcReg, now, ww, buf>>
    /\ UNCHANGED <<keypad, kpp>>

\* an error path that leaves the clock as it is
clk_disable_skipped(c) == c

\* the clock after clk_disable at the label err of dryice_rtc_probe
clk_disable(c) == FALSE

\* what dryice_rtc_probe does with the value of di_handle_state
\* a probe that does not look at the value of di_handle_state
ProbeIgnoresState(rc) == "nvmem"

ProbeAfterState(rc) == IF rc # 0 THEN "err" ELSE "nvmem"

\* the hardware initialisation of dryice_rtc_probe: mask all interrupts,
\* then di_handle_state (the call is logged with the registers it finds)
ProbeHw(h, svfClears) ==
    LET m0 == writel_DIER([hw |-> h, log |-> <<>>, rc |-> 0], {})
    IN di_handle_state(Say(m0, "call", "di_handle_state", m0.hw), svfClears)

\* mask all interrupts, di_handle_state, and `goto err' when it fails
ProbeInitHw ==
    /\ pc = "init_hw"
    /\ \E svfClears \in BOOLEAN :
         LET m == ProbeHw(hw, svfClears)
         IN /\ hw' = m.hw
            /\ log' = m.log
            /\ rcState' = <<m.rc>>
            /\ IF ProbeAfterState(m.rc) = "err"
               THEN /\ clk' = clk_disable(clk)
                    /\ ret' = m.rc
                    /\ pc' = "failed"
               ELSE /\ clk' = clk
                    /\ ret' = ret
                    /\ pc' = "nvmem"
    /\ UNCHANGED <<pend, nvmemReg, rtcReg, now, ww, buf>>
    /\ UNCHANGED <<keypad, kpp>>

ProbeNvmem ==
    /\ pc = "nvmem"
    /\ \E ok \in BOOLEAN :
         IF ok THEN /\ nvmemReg' = TRUE
                    /\ pc' = "rtc"
                    /\ UNCHANGED <<clk, ret>>
               ELSE /\ nvmemReg' = FALSE
                    /\ clk' = clk_disable(clk)
                    /\ ret' = -ENOMEM
                    /\ pc' = "failed"
    /\ UNCHANGED <<hw, pend, log, rcState, rtcReg, now, ww, buf>>
    /\ UNCHANGED <<keypad, kpp>>

ProbeRtc ==
    /\ pc = "rtc"
    /\ \E ok \in BOOLEAN :
         IF ok THEN /\ rtcReg' = TRUE
                    /\ pc' = "idle"
                    /\ ret' = 0
                    /\ clk' = clk
               ELSE /\ rtcReg' = FALSE
                    /\ clk' = clk_disable(clk)
                    /\ ret' = -ENOMEM
                    /\ pc' = "failed"
    /\ UNCHANGED <<hw, pend, log, rcState, nvmemReg, now, ww, buf>>
    /\ UNCHANGED <<keypad, kpp>>

Next ==
    \/ ProbeAcquire
    \/ ProbeInitHw
    \/ ProbeNvmem
    \/ ProbeRtc

\* attach: dryice_rtc_probe from every state the unit may be found in
Spec == Init /\ [][Next]_vars

(* --------------------------- time accessor ----------------------------- *)
dryice_rtc_read_time ==
    /\ pc = "idle" /\ rtcReg
    /\ log' = <<Ev("call", "dryice_rtc_read_time", 0, hw), Ev("read", "DTCMR", hw.DTCMR, hw)>>
    /\ ret' = 0
    /\ UNCHANGED <<hw, pend, pc, rcState, clk, nvmemReg, rtcReg, now, ww, buf>>
    /\ UNCHANGED <<keypad, kpp>>

\* dryice_rtc_set_time up to its first di_write_wait
SetTimeEnter ==
    /\ pc = "idle" /\ rtcReg
    /\ \E valid \in BOOLEAN, secs \in SetSecs :
         LET m0 == [hw |-> hw, rc |-> 0,
                    log |-> <<Ev("call", "dryice_rtc_set_time", secs, hw)>>]
             dcr == ReadVal(m0, "DCR")
             m1 == readl(m0, "DCR")
             dsr == ReadVal(m1, "DSR")
             m2 == readl(m1, "DSR")
             gate == SetTimeGate(dcr, dsr)
         IN IF ~valid
            THEN /\ ret' = -EINVAL
                 /\ log' = m0.log
                 /\ UNCHANGED <<hw, pc, ww>>
            ELSE IF gate # "go"
            THEN /\ ret' = -EPERM
                 /\ hw' = m2.hw
                 /\ log' = Append(di_what_is_to_be_done(m2, gate).log,
                                  Ev("ret", "dryice_rtc_set_time", -EPERM, m2.hw))
                 /\ UNCHANGED <<pc, ww>>
            ELSE /\ hw' = m2.hw
                 /\ log' = m2.log
                 /\ ww' = [idx |-> 1, secs |-> secs, start |-> now]
                 /\ pc' = "st_write"
                 /\ UNCHANGED ret
    /\ UNCHANGED <<pend, rcState, clk, nvmemReg, rtcReg, now, buf>>
    /\ UNCHANGED <<keypad, kpp>>

\* di_write_wait: writel and start = get_time_ns()
DiWriteWaitWrite ==
    /\ pc = "st_write"
    /\ LET w == SetTimeWrite(ww.idx, ww.secs, hw)
           l1 == IF ww.idx = 3 THEN Append(log, Ev("read", "DCR", hw.DCR, hw)) ELSE log
           x == writel(hw, pend, w.reg, w.val)
       IN /\ pend' = x.pend
          /\ hw' = x.hw
          /\ log' = Append(l1, Ev("write", w.reg, w.val, hw))
    /\ ww' = [ww EXCEPT !.start = now]
    /\ pc' = "st_poll"
    /\ UNCHANGED <<ret, rcState, clk, nvmemReg, rtcReg, now, buf>>
    /\ UNCHANGED <<keypad, kpp>>

\* a set_time that goes on to the next write after a failed one
SetTimeNextIgnoresRc(idx, rc) == IF idx = 3 THEN "return" ELSE "write"

\* dryice_rtc_set_time after its idx-th di_write_wait returned rc: the next
\* write, or the return
SetTimeNext(idx, rc) == IF rc # 0 \/ idx = 3 THEN "return" ELSE "write"

\* di_write_wait: one pass of the poll loop, and what follows when the loop
\* is left
DiWriteWaitPoll ==
    /\ pc = "st_poll"
    /\ \E doneAt \in DoneAt :
       LET dsr == hw.DSR
           h1 == HwAfterRead(hw, "DSR")
           dec == PollDecision(dsr, is_timeout(now, ww.start, MSECOND))
           l0 == Append(log, Ev("poll", dec, [dsr |-> dsr, elapsed |-> now - ww.start], hw))
           cw == IF dec = "break" /\ DSR_WEF \in dsr
                 THEN clear_write_error(h1, pend, l0, doneAt)
                 ELSE [hw |-> h1, pend |-> pend, log |-> l0, polls |-> 0, ns |-> 0]
           rc == IF dec = "timeout" THEN -EIO
                 ELSE RcAfterClear(WriteWaitRc(dsr), cw.hw.DSR)
           l1 == Append(cw.log, Ev("ret", "di_write_wait", rc, cw.hw))
       IN /\ (dec # "break" \/ DSR_WEF \notin dsr) => doneAt = 0
          /\ IF dec = "again"
             THEN /\ hw' = h1
                  /\ UNCHANGED <<pend, log, pc, ret, now, ww>>
             ELSE /\ hw' = cw.hw
                  /\ pend' = cw.pend
                  /\ IF SetTimeNext(ww.idx, rc) = "return"
                     THEN /\ pc' = "idle"
                          /\ ret' = rc
                          /\ now' = 0
                          /\ ww' = ww0
                          /\ log' = Append(l1, Ev("ret", "dryice_rtc_set_time", rc, cw.hw))
                     ELSE /\ pc' = "st_write"
                          /\ now' = 0
                          /\ ww' = [ww EXCEPT !.idx = ww.idx + 1, !.start = 0]
                          /\ log' = l1
                          /\ UNCHANGED ret
    /\ UNCHANGED <<rcState, clk, nvmemReg, rtcReg, buf>>
    /\ UNCHANGED <<keypad, kpp>>

\* the monotonic clock advancing while di_write_wait polls
Tick ==
    /\ pc = "st_poll"
    /\ now - ww.start <= MSECOND
    /\ now' = now + TickNs
    /\ UNCHANGED <<hw, pend, pc, log, ret, rcState, clk, nvmemReg, rtcReg, ww, buf>>
    /\ UNCHANGED <<keypad, kpp>>

(* --------------------------- NVRAM adapter ----------------------------- *)
nvstore_write ==
    /\ pc \in {"idle", "failed"} /\ nvmemReg
    /\ \E bytes \in 0..MaxBytes, val \in NvVals :
         /\ buf' = val
         /\ ret' = nvstore_rc(bytes)
         /\ IF nvstore_serves(bytes)
            THEN LET x == writel(hw, pend, "DGPR", val)
                 IN /\ pend' = x.pend
                    /\ hw' = x.hw
                    /\ log' = <<Ev("call", "nvstore_write", bytes, hw),
                                Ev("write", "DGPR", val, hw)>>
            ELSE /\ pend' = pend
                 /\ hw' = hw
                 /\ log' = <<Ev("call", "nvstore_write", bytes, hw)>>
    /\ UNCHANGED <<pc, rcState, clk, nvmemReg, rtcReg, now, ww>>
    /\ UNCHANGED <<keypad, kpp>>

nvstore_read ==
    /\ pc \in {"idle", "failed"} /\ nvmemReg
    /\ \E bytes \in 0..MaxBytes :
         /\ ret' = nvstore_rc(bytes)
         /\ IF nvstore_serves(bytes)
            THEN /\ buf' = hw.DGPR
                 /\ log' = <<Ev("call", "nvstore_read", bytes, hw),
                             Ev("buf", "before", buf, hw),
                             Ev("read", "DGPR", hw.DGPR, hw)>>
            ELSE /\ buf' = buf
                 /\ log' = <<Ev("call", "nvstore_read", bytes, hw),
                             Ev("buf", "before", buf, hw)>>
    /\ UNCHANGED <<hw, pend, pc, rcState, clk, nvmemReg, rtcReg, now, ww>>
    /\ UNCHANGED <<keypad, kpp>>

(* ------------------------- the unit at work ---------------------------- *)
\* the pending write takes effect and sets WCF
HwComplete ==
    /\ pend # <<>>
    /\ hw' = HwDone(hw, Head(pend).reg, Head(pend).val, TRUE)
    /\ pend' = Tail(pend)
    /\ UNCHANGED <<pc, log, ret, rcState, clk, nvmemReg, rtcReg, now, ww, buf>>
    /\ UNCHANGED <<keypad, kpp>>

\* the pending write fails: it is dropped and WEF is set
HwWriteError ==
    /\ pend # <<>>
    /\ hw' = [hw EXCEPT !.DSR = hw.DSR \cup {DSR_WEF}]
    /\ pend' = Tail(pend)
    /\ UNCHANGED <<pc, log, ret, rcState, clk, nvmemReg, rtcReg, now, ww, buf>>
    /\ UNCHANGED <<keypad, kpp>>

\* an enabled tamper source fires: the unit enters the failure state
HwViolation ==
    /\ hw.DTCR # {}
    /\ DSR_SVF \notin hw.DSR
    /\ hw' = [hw EXCEPT !.DSR = hw.DSR \cup {DSR_SVF, DSR_WTD}]
    /\ UNCHANGED <<pend, pc, log, ret, rcState, clk, nvmemReg, rtcReg, now, ww, buf>>
    /\ UNCHANGED <<keypad, kpp>>

\* the units the accessors are run on: those a successful attach leaves
AccessBoot ==
    {h \in BootHw : /\ h.DSR = {}
                    /\ h.DCR \subseteq {DCR_TCHL, DCR_TCSL, DCR_TCE}
                    /\ h.DTCR # {}
                    /\ h.DTCMR = 12345 /\ h.DCAMR = 0}

InitAccess ==
    /\ \E h \in AccessBoot :
         LET m == ProbeHw(h, TRUE)
         IN /\ m.rc = 0
            /\ hw = m.hw
    /\ pend = <<>>
    /\ pc = "idle"
    /\ log = <<>>
    /\ ret = 0
    /\ rcState = <<0>>
    /\ clk = TRUE
    /\ nvmemReg = TRUE
    /\ rtcReg = TRUE
    /\ now = 0
    /\ ww = ww0
    /\ buf = 0
    /\ keypad = imx_keypad_probe({<<0, 0>>})
    /\ kpp = KpBoot

NextAccess ==
    \/ dryice_rtc_read_time
    \/ SetTimeEnter
    \/ DiWriteWaitWrite
    \/ DiWriteWaitPoll
    \/ Tick
    \/ HwComplete
    \/ HwWriteError
    \/ HwViolation

\* the time accessor, called again and again after a successful attach
SpecAccess == InitAccess /\ [][NextAccess]_vars

\* dryice_rtc_set_time alone, with the scheduling the code gives: once
\* called it runs on (nothing preempts the busy-wait loops), and the
\* monotonic clock advances. The unit is under no obligation: it may
\* complete a write, fail it, or never answer.
NextWait ==
    \/ SetTimeEnter
    \/ DiWriteWaitWrite
    \/ DiWriteWaitPoll
    \/ Tick
    \/ HwComplete
    \/ HwWriteError

\* a pass of the poll loop of di_write_wait is due: the status shows a flag,
\* or the window is over (this is ENABLED <<DiWriteWaitPoll>>_vars: a pass
\* that decides to poll again changes nothing)
PollDue ==
    /\ pc = "st_poll"
    /\ PollDecision(hw.DSR, is_timeout(now, ww.start, MSECOND)) # "again"

\* weak fairness of DiWriteWaitPoll, its enabling condition written out
PollFair == []<>(~PollDue) \/ []<><<DiWriteWaitPoll>>_vars

SpecWait ==
    /\ InitAccess /\ [][NextWait]_vars
    /\ WF_vars(DiWriteWaitWrite)
    /\ WF_vars(Tick)
    /\ PollFair

\* attach and then the time accessor, on three units: found non-valid,
\* found non-valid and in failure state after a tamper event, found valid
\* with an alarm pending; none locked
SyncBoot ==
    {h \in BootHw : /\ h.DCR = {}
                    /\ h.DSR \in {{DSR_NVF}, {DSR_NVF, DSR_SVF, DSR_WTD}, {DSR_CAF}}
                    /\ h.DTCR # {}
                    /\ h.DTCMR = 12345 /\ h.DCAMR = 0}

InitSync == Init /\ hw \in SyncBoot

NextSync ==
    \/ ProbeAcquire
    \/ ProbeInitHw
    \/ ProbeNvmem
    \/ ProbeRtc
    \/ SetTimeEnter
    \/ DiWriteWaitWrite
    \/ DiWriteWaitPoll
    \/ Tick
    \/ HwComplete
    \/ HwWriteError

SpecSync == InitSync /\ [][NextSync]_vars

\* nvmem_register comes before rtc_register in dryice_rtc_probe: the NVRAM
\* adapter is registered after a successful attach, and also after one that
\* failed in rtc_register
InitNv ==
    /\ \E h \in AccessBoot :
         LET m == ProbeHw(h, TRUE)
         IN /\ m.rc = 0
            /\ hw = m.hw
    /\ pend = <<>>
    /\ pc \in {"idle", "failed"}
    /\ log = <<>>
    /\ ret = IF pc = "idle" THEN 0 ELSE -ENOMEM
    /\ rcState = <<0>>
    /\ clk = (pc = "idle")
    /\ nvmemReg = TRUE
    /\ rtcReg = (pc = "idle")
    /\ now = 0
    /\ ww = ww0
    /\ buf = 0
    /\ keypad = imx_keypad_probe({<<0, 0>>})
    /\ kpp = KpBoot

NextNv ==
    \/ nvstore_write
    \/ nvstore_read
    \/ HwComplete
    \/ HwWriteError

\* the NVRAM word adapter, called again and again
SpecNv == InitNv /\ [][NextNv]_vars

(* ------------------------- the keypad at work -------------------------- *)
\* the poller calls imx_keypad_check_for_events; the keys held down at the
\* time of the scan are anything
KpPoll ==
    /\ \E pressed \in KpPressed :
         LET vol == imx_keypad_scan_matrix(keypad, pressed)
             r == imx_keypad_check_for_events(keypad, kpp.KPSR, pressed)
             ev(key) == {i \in 1..Len(r.fired) :
                            <<r.fired[i].row, r.fired[i].col>> = key}
         IN /\ keypad' = r.keypad
            /\ kpp' = [KPSR |-> r.KPSR,
                       fired |-> r.fired,
                       scan |-> <<vol>>,
                       run |-> IF kpp.scan # <<vol>> THEN 1
                               ELSE IF kpp.run < RunCap THEN kpp.run + 1
                               ELSE RunCap,
                       last |-> [key \in KpKeys |->
                                   IF ev(key) = {} THEN kpp.last[key]
                                   ELSE IF r.fired[CHOOSE i \in ev(key) :
                                                     \A j \in ev(key) : j <= i].value
                                   THEN "press" ELSE "release"]]
    /\ UNCHANGED <<hw, pend, pc, log, ret, rcState, clk, nvmemReg, rtcReg, now, ww, buf>>

\* the controller latches a key press or a key release in KPSR
KpKeyEdge ==
    /\ \E b \in {KBD_STAT_KPKD, KBD_STAT_KPKR} :
         /\ b \notin kpp.KPSR
         /\ kpp' = [kpp EXCEPT !.KPSR = @ \cup {b}]
    /\ UNCHANGED <<hw, pend, pc, log, ret, rcState, clk, nvmemReg, rtcReg, now, ww, buf,
                   keypad>>

\* the keypad probed with one of the keymaps; the RTC is not in use
InitKp ==
    /\ \E km \in Keymaps : keypad = imx_keypad_probe(km)
    /\ kpp = KpBoot
    /\ hw = CHOOSE h \in BootHw : TRUE
    /\ pend = <<>>
    /\ pc = "probe"
    /\ log = <<>>
    /\ ret = 0
    /\ rcState = <<>>
    /\ clk = FALSE
    /\ nvmemReg = FALSE
    /\ rtcReg = FALSE
    /\ now = 0
    /\ ww = ww0
    /\ buf = 0

NextKp ==
    \/ KpPoll
    \/ KpKeyEdge

SpecKp == InitKp /\ [][NextKp]_vars

(* ======================= properties of the attach ====================== *)
\* After ProbeInitHw the log reads: write DIER, call di_handle_state (with
\* the registers found), read DSR, dispatch, call of the procedure, ...
Recovered == rcState # <<>>
EntryHw == log[2].v
EntryDSR == log[3].v
Dispatched == log[4].r
IsProcCall(e) == e.k = "call" /\ e.r # "di_handle_state"
IsDispatch(e) == e.k = "dispatch"
IsWrite(e) == e.k = "write"
IsEmerg(e) == e.k = "emerg"
ProcCalls == SelectSeq(log, IsProcCall)

\* the procedure the claim assigns to the two bits
ProcFor(nvf, svf) ==
    IF ~nvf /\ ~svf THEN "di_handle_valid_state"
    ELSE IF nvf /\ ~svf THEN "di_handle_invalid_state"
    ELSE IF ~nvf /\ svf THEN "di_handle_failure_state"
    ELSE "di_handle_invalid_and_failure_state"

\* C1: di_handle_state reads the status once and dispatches to exactly one
\* procedure, the one that the NVF and SVF bits of that status select,
\* whatever the other status bits are.
C1_ClassifyByTwoBits ==
    Recovered =>
        /\ log[3].k = "read" /\ log[3].r = "DSR"
        /\ Len(SelectSeq(log, IsDispatch)) = 1
        /\ Dispatched = ProcFor(DSR_NVF \in EntryDSR, DSR_SVF \in EntryDSR)
        /\ ProcCalls[1].r = Dispatched

\* a status with non-valid set, security-violation clear and other bits
\* (time overflow, alarm) set has been dispatched
C1_Witness ==
    /\ Recovered
    /\ DSR_NVF \in EntryDSR /\ DSR_SVF \notin EntryDSR
    /\ {DSR_TCO, DSR_CAF} \subseteq EntryDSR
    /\ Dispatched = "di_handle_invalid_state"

\* C3: the nvmem and rtc interfaces are registered only after
\* di_handle_state returned 0; when it returned an error neither is
\* registered.
C3_RegisterOnlyAfterSuccess ==
    /\ (nvmemReg \/ rtcReg) => rcState = <<0>>
    /\ (Recovered /\ rcState # <<0>>) => (~nvmemReg /\ ~rtcReg /\ pc = "failed")

C3_Witness == nvmemReg /\ rtcReg /\ pc = "idle" /\ rcState = <<0>>

IsValidCall(e) == e.k = "call" /\ e.r = "di_handle_valid_state"

\* C6: di_handle_valid_state always returns 0 and leaves DCAMR at
\* DCAMR_UNSET (and DCALR at 0) and the clock-alarm flag clear, whatever
\* they were; a status with NVF = SVF = 0 runs di_handle_valid_state alone
\* and di_handle_state returns 0.
C6_ValidDisarmsAlarm ==
    /\ (Recovered /\ SelectSeq(log, IsValidCall) # <<>>) =>
          /\ rcState = <<0>>
          /\ hw.DCAMR = DCAMR_UNSET /\ hw.DCALR = 0
          /\ DSR_CAF \notin hw.DSR
    /\ (Recovered /\ EntryDSR \cap {DSR_NVF, DSR_SVF} = {}) =>
          /\ Len(ProcCalls) = 1 /\ ProcCalls[1].r = "di_handle_valid_state"
          /\ rcState = <<0>>

\* a valid unit with the alarm flag pending and an alarm set was recovered
C6_Witness ==
    /\ Recovered
    /\ EntryDSR \cap {DSR_NVF, DSR_SVF} = {}
    /\ DSR_CAF \in EntryDSR
    /\ EntryHw.DCAMR = 12345 /\ EntryHw.DCALR = 9
    /\ hw.DCAMR = DCAMR_UNSET

InSetTime == log # <<>> /\ log[1].k = "call" /\ log[1].r = "dryice_rtc_set_time"
IsWaitRet(e) == e.k = "ret" /\ e.r = "di_write_wait"
IsSetTimeRet(e) == e.k = "ret" /\ e.r = "dryice_rtc_set_time"
IsSubWrite(e) == e.k = "write" /\ e.r \in {"DTCLR", "DTCMR", "DCR"}
WaitRetIdx == {i \in 1..Len(log) : IsWaitRet(log[i])}
\* the poll that ended the loop of the di_write_wait returning at log[i]
EndPoll(i) ==
    log[CHOOSE j \in 1..(i - 1) :
            /\ log[j].k = "poll"
            /\ \A k \in (j + 1)..(i - 1) : log[k].k # "poll"]

\* C4: di_write_wait returns 0 only if the status snapshot that ended its
\* poll loop had WCF set and WEF clear; a snapshot with WEF set makes it
\* return an error even with WCF set in it.
C4_SuccessOnlyOnObservedWcf ==
    \A i \in WaitRetIdx :
        LET p == EndPoll(i)
        IN /\ log[i].v = 0 =>
                 (p.r = "break" /\ DSR_WCF \in p.v.dsr /\ DSR_WEF \notin p.v.dsr)
           /\ DSR_WEF \in p.v.dsr => log[i].v = -EIO

\* a di_write_wait returned 0
C4_Witness ==
    \E i \in WaitRetIdx : log[i].v = 0 /\ DSR_WCF \in EndPoll(i).v.dsr

\* C5: di_write_wait returns -EIO when its loop ends without WCF seen; it
\* gives up for the timeout only when more than MSECOND of the monotonic
\* clock has passed since the write; and a snapshot with WCF set (and no
\* write error) yields 0 however late it is read.
C5_TimeoutOnlyAfterWindow ==
    \A i \in WaitRetIdx :
        LET p == EndPoll(i)
        IN /\ DSR_WCF \notin p.v.dsr => log[i].v = -EIO
           /\ (p.v.dsr \cap {DSR_WCF, DSR_WEF} = {}) =>
                 (p.r = "timeout" /\ p.v.elapsed > MSECOND)
           /\ p.r = "timeout" => (p.v.elapsed > MSECOND /\ log[i].v = -EIO)
           /\ (DSR_WCF \in p.v.dsr /\ DSR_WEF \notin p.v.dsr) => log[i].v = 0

\* a di_write_wait gave up after the window, no flag seen
C5_Witness ==
    \E i \in WaitRetIdx :
        /\ EndPoll(i).r = "timeout"
        /\ EndPoll(i).v.dsr \cap {DSR_WCF, DSR_WEF} = {}
        /\ log[i].v = -EIO

\* a di_write_wait returned 0 on a snapshot read after the window
C5_LateSuccess ==
    \E i \in WaitRetIdx : log[i].v = 0 /\ EndPoll(i).v.elapsed > MSECOND

SubWrites == SelectSeq(log, IsSubWrite)
WaitRets == SelectSeq(log, IsWaitRet)

\* C10: the confirmed writes of dryice_rtc_set_time are DTCLR := 0, then
\* DTCMR := secs, then DCR := DCR | TCE, in this order; a write is issued
\* only after every earlier di_write_wait returned 0; set_time returns the
\* first non-zero value of di_write_wait, or 0 after the third write.
C10_SetTimeWriteOrder ==
    InSetTime =>
        /\ Len(SubWrites) <= 3
        /\ Len(SubWrites) >= 1 => (SubWrites[1].r = "DTCLR" /\ SubWrites[1].v = 0)
        /\ Len(SubWrites) >= 2 => (SubWrites[2].r = "DTCMR" /\ SubWrites[2].v = log[1].v)
        /\ Len(SubWrites) >= 3 =>
              (SubWrites[3].r = "DCR" /\ SubWrites[3].v = SubWrites[3].dcr \cup {DCR_TCE})
        /\ Len(WaitRets) <= Len(SubWrites) /\ Len(SubWrites) <= Len(WaitRets) + 1
        /\ \A k \in 1..Len(WaitRets) :
              WaitRets[k].v # 0 => (k = Len(WaitRets) /\ Len(SubWrites) = k)
        /\ (IsSetTimeRet(log[Len(log)]) /\ SubWrites # <<>>) =>
              /\ Len(WaitRets) = Len(SubWrites)
              /\ log[Len(log)].v = WaitRets[Len(WaitRets)].v
              /\ log[Len(log)].v = 0 => Len(SubWrites) = 3

\* a set_time whose second write failed has returned
C10_Witness ==
    /\ InSetTime /\ IsSetTimeRet(log[Len(log)])
    /\ Len(WaitRets) = 2 /\ WaitRets[1].v = 0 /\ WaitRets[2].v = -EIO
    /\ Len(SubWrites) = 2 /\ log[Len(log)].v = -EIO

\* C2: no write to the tamper configuration register is issued while TDCHL
\* is set, and no write to the time counter registers or to the TCE bit is
\* issued while TCHL is set (dcr is the control register of the unit at the
\* moment of the write).
C2_NoWriteUnderHardLock ==
    \A i \in 1..Len(log) :
        IsWrite(log[i]) =>
            /\ log[i].r = "DTCR" => DCR_TDCHL \notin log[i].dcr
            /\ log[i].r \in {"DTCMR", "DTCLR"} => DCR_TCHL \notin log[i].dcr
            /\ (log[i].r = "DCR" /\ DCR_TCHL \in log[i].dcr) =>
                  (DCR_TCE \in log[i].v <=> DCR_TCE \in log[i].dcr)

\* C8: dryice_rtc_set_time returns -EPERM, without any write, whenever the
\* control register it read has TCHL set, or has TCSL set, or the status it
\* read has SVF set.
C8_RejectedOnEachCondition ==
    (/\ InSetTime
     /\ Len(log) >= 3
     /\ \/ DCR_TCHL \in log[2].v
        \/ DCR_TCSL \in log[2].v
        \/ DSR_SVF \in log[3].v) =>
        /\ SubWrites = <<>>
        /\ IsSetTimeRet(log[Len(log)])
        /\ log[Len(log)].v = -EPERM

IsAccess(e) == e.k \in {"read", "write"}

\* C9: nvstore_write and nvstore_read return -EINVAL for a length other
\* than 4 and then access no register and leave the buffer alone; for a
\* length of 4 they access DGPR exactly once.
C9_NvstoreRejectsWrongLength ==
    (/\ log # <<>>
     /\ log[1].k = "call"
     /\ log[1].r \in {"nvstore_write", "nvstore_read"}) =>
        IF log[1].v # WordBytes
        THEN /\ ret = -EINVAL
             /\ SelectSeq(log, IsAccess) = <<>>
             /\ log[1].r = "nvstore_read" => buf = log[2].v
        ELSE /\ Len(SelectSeq(log, IsAccess)) = 1
             /\ SelectSeq(log, IsAccess)[1].r = "DGPR"

(* ================== properties of the recovery procedures ============== *)
IsWarnSecs(e) == e.k = "warn" /\ e.r = "violation at seconds"
\* the unit was found non-valid without a security violation, its counter
\* disabled and not time-locked
InvalidUnlockedEntry ==
    /\ Recovered
    /\ EntryDSR \cap {DSR_NVF, DSR_SVF} = {DSR_NVF}
    /\ EntryHw.DCR \cap {DCR_TCE, DCR_TCHL, DCR_TCSL} = {}

\* what the invalid-state recovery is to leave behind, s being the seconds
\* found on entry
InvalidRecovered(s) ==
    /\ rcState = <<0>>
    /\ hw.DTCR = {}
    /\ DSR_NVF \notin hw.DSR
    /\ DCR_TCE \in hw.DCR
    /\ hw.DTCMR = s
    /\ hw.DCAMR = DCAMR_UNSET /\ DSR_CAF \notin hw.DSR
    /\ (SelectSeq(log, IsWarnSecs) # <<>>) <=> (s # 0)
    /\ \A i \in 1..Len(log) : IsWarnSecs(log[i]) => log[i].v = s

\* C11: a unit found with NVF set and SVF clear, any tamper configuration,
\* any seconds s, TCE clear and no time lock, is recovered with success:
\* DTCR is zero, NVF clear, TCE set, DTCMR = s, the alarm disarmed, and s is
\* reported as a possible violation time exactly when it is not zero.
C11_InvalidRecovery ==
    InvalidUnlockedEntry => InvalidRecovered(EntryHw.DTCMR)

\* C11 as amended: the same for a unit whose tamper configuration is not
\* locked either (neither TDCHL nor TDCSL set), as in Scenario B.
C11_InvalidRecoveryUnlocked ==
    (InvalidUnlockedEntry /\ EntryHw.DCR \cap {DCR_TDCHL, DCR_TDCSL} = {})
        => InvalidRecovered(EntryHw.DTCMR)

\* Scenario B: tamper sources armed, 12345 seconds stored, no lock
C11_Witness ==
    /\ InvalidUnlockedEntry
    /\ EntryHw.DCR = {}
    /\ EntryHw.DTCR # {} /\ EntryHw.DTCMR = 12345
    /\ rcState = <<0>> /\ hw.DTCR = {} /\ hw.DTCMR = 12345

\* the register writes of di_handle_state, in order (the DIER write of the
\* attach comes before the call)
ProcWrites == SelectSeq(SubSeq(log, 3, Len(log)), IsWrite)
\* the status reads of di_handle_state, in order; the first is the
\* dispatcher's
DsrReads == SelectSeq(SubSeq(log, 3, Len(log)), LAMBDA e : e.k = "read" /\ e.r = "DSR")
ProcNames == [i \in 1..Len(ProcCalls) |-> ProcCalls[i].r]
LogIdx(P(_)) == {i \in 1..Len(log) : P(log[i])}
IsInvalidCall(e) == e.k = "call" /\ e.r = "di_handle_invalid_state"

\* the unit was found non-valid and in failure state, some tamper-class
\* status bit set, the tamper configuration not locked
TamperedUnlockedEntry ==
    /\ Recovered
    /\ {DSR_NVF, DSR_SVF} \subseteq EntryDSR
    /\ EntryDSR \cap TamperStatus # {}
    /\ EntryHw.DCR \cap {DCR_TDCHL, DCR_TDCSL} = {}

\* DTCR := 0, the tamper-class bits found written back to DSR, DSR read,
\* SVF written to DSR, DSR read again
TamperCleanup ==
    /\ Len(ProcWrites) >= 3 /\ Len(DsrReads) >= 3
    /\ ProcWrites[1].r = "DTCR" /\ ProcWrites[1].v = {}
    /\ ProcWrites[2].r = "DSR" /\ ProcWrites[2].v = EntryDSR \cap TamperStatus
    /\ ProcWrites[3].r = "DSR" /\ ProcWrites[3].v = {DSR_SVF}
    /\ DsrReads[2].v \cap TamperStatus = {}
    /\ LET w2 == ProcWrites[2]
           w3 == ProcWrites[3]
           r2 == DsrReads[2]
           r3 == DsrReads[3]
       IN \E i \in 1..Len(log) :
             /\ log[i] = w2
             /\ \E j \in (i + 1)..Len(log) :
                   /\ log[j] = r2
                   /\ \E k \in (j + 1)..Len(log) :
                         /\ log[k] = w3
                         /\ \E l \in (k + 1)..Len(log) :
                               /\ log[l] = r3
                               /\ \A c \in LogIdx(IsInvalidCall) : l < c

\* the chain went on through the invalid-state recovery to the end
ChainedToValid ==
    /\ ProcNames = <<"di_handle_invalid_and_failure_state",
                     "di_handle_invalid_state", "di_handle_valid_state">>
    /\ InvalidRecovered(EntryHw.DTCMR)
    /\ hw.DSR \cap ({DSR_SVF} \cup TamperStatus) = {}

\* C12: found with NVF and SVF set, a tamper-class bit set and the tamper
\* configuration unlocked, the recovery zeroes DTCR, clears the tamper-class
\* bits found, clears SVF, reads the status again, and goes on with the
\* invalid-state recovery, ending with success (the status read again
\* showing SVF clear).
C12_TamperRecovery ==
    TamperedUnlockedEntry =>
        /\ TamperCleanup
        /\ DSR_SVF \notin DsrReads[3].v => ChainedToValid

\* C12 as amended: the cleanup is done in this order whenever the tamper
\* configuration is unlocked; the invalid-state recovery follows and ends
\* with success when the status read again shows SVF clear and the counter
\* is not found disabled under a time lock.
C12_TamperRecoveryIfCleared ==
    TamperedUnlockedEntry =>
        /\ TamperCleanup
        /\ (/\ DSR_SVF \notin DsrReads[3].v
            /\ ~(TimeLocked(EntryHw) /\ DCR_TCE \notin EntryHw.DCR)) => ChainedToValid

\* Scenario D: one tamper bit set, no lock, 12345 seconds stored
C12_Witness ==
    /\ TamperedUnlockedEntry
    /\ EntryDSR \cap TamperStatus = {DSR_WTD}
    /\ EntryHw.DCR = {} /\ EntryHw.DTCR # {} /\ EntryHw.DTCMR = 12345
    /\ ChainedToValid

IsClearRet(e) == e.k = "ret" /\ e.r = "clear_write_error"

\* C13: no wait is unbounded. clear_write_error reads the status at most
\* ClearPolls times and returns, the error flag cleared or not; and a
\* dryice_rtc_set_time that was called returns, whatever the unit does, the
\* monotonic clock advancing.
C13_NoUnboundedWait ==
    /\ [](\A i \in LogIdx(IsClearRet) :
             /\ log[i].v.polls >= 1 /\ log[i].v.polls <= ClearPolls
             /\ log[i - 1].k = "err" => log[i].v.polls = ClearPolls)
    /\ (pc # "idle") ~> (pc = "idle")

\* clear_write_error gave up after its last poll, the flag still set, and
\* dryice_rtc_set_time has returned
C13_Witness ==
    /\ pc = "idle" /\ InSetTime /\ IsSetTimeRet(log[Len(log)])
    /\ \E i \in LogIdx(IsClearRet) : log[i].v.polls = ClearPolls /\ log[i - 1].k = "err"

\* the procedure that was running at log[i]
RunningAt(i) ==
    log[CHOOSE j \in 1..(i - 1) :
            /\ IsProcCall(log[j])
            /\ \A k \in (j + 1)..(i - 1) : ~IsProcCall(log[k])].r

\* the hard lock each procedure tests
HardLockOf(proc) ==
    CASE proc = "di_handle_failure_state" -> DCR_FSHL
      [] proc = "di_handle_invalid_state" -> DCR_TCHL
      [] proc = "di_handle_invalid_and_failure_state" -> DCR_TDCHL
      [] OTHER -> "none"

\* the soft lock each procedure tests
SoftLockOf(proc) ==
    CASE proc = "di_handle_invalid_state" -> DCR_TCSL
      [] proc = "di_handle_invalid_and_failure_state" -> DCR_TDCSL
      [] OTHER -> "none"

\* the supply the message at log[i] is to name, from what the procedure
\* met just before: a security-violation flag that would not clear, or the
\* control register it read
SupplyFor(i) ==
    LET proc == RunningAt(i)
        prev == log[i - 1]
    IN IF prev.k = "crit" THEN "battery"
       ELSE IF prev.k = "read" /\ prev.r = "DCR"
       THEN IF HardLockOf(proc) \in prev.v THEN "battery"
            ELSE IF proc = "di_handle_failure_state" \/ SoftLockOf(proc) \in prev.v
            THEN "main"
            ELSE "none"
       ELSE "none"

IsSvfWrite(e) == e.k = "write" /\ e.r = "DSR" /\ e.v = {DSR_SVF}

\* C15: within one di_handle_state the procedures run along the chain
\* invalid+failure -> invalid -> valid only: the first is the one the
\* dispatcher chose, none runs twice, the failure procedure runs alone, the
\* invalid procedure comes first or right after an invalid+failure procedure
\* that got the security-violation flag cleared, the valid procedure comes
\* first or right after the invalid one, and a di_handle_state that returns
\* 0 ended with the valid procedure.
C15_ChainOnly ==
    Recovered =>
        /\ Len(ProcNames) >= 1 /\ ProcNames[1] = Dispatched
        /\ \A i, j \in 1..Len(ProcNames) : i # j => ProcNames[i] # ProcNames[j]
        /\ \A i \in 1..Len(ProcNames) :
              /\ ProcNames[i] = "di_handle_failure_state" => Len(ProcNames) = 1
              /\ ProcNames[i] = "di_handle_invalid_and_failure_state" => i = 1
              /\ (ProcNames[i] = "di_handle_invalid_state" /\ i > 1) =>
                    /\ ProcNames[i - 1] = "di_handle_invalid_and_failure_state"
                    /\ \E c \in LogIdx(IsInvalidCall) :
                          /\ log[c - 1].k = "read" /\ log[c - 1].r = "DSR"
                          /\ DSR_SVF \notin log[c - 1].v
                          /\ \A k \in 1..c : ~IsEmerg(log[k])
              /\ (ProcNames[i] = "di_handle_valid_state" /\ i > 1) =>
                    ProcNames[i - 1] = "di_handle_invalid_state"
        /\ rcState = <<0>> => ProcNames[Len(ProcNames)] = "di_handle_valid_state"

\* the whole chain was run
C15_Witness ==
    /\ Recovered /\ rcState = <<0>>
    /\ ProcNames = <<"di_handle_invalid_and_failure_state",
                     "di_handle_invalid_state", "di_handle_valid_state">>
    /\ EntryDSR \cap TamperStatus = {}

IsAlarmWrite(e) == e.k = "write" /\ e.r \in {"DCAMR", "DCALR"}
\* the read whose value made the procedure give up: the event before the
\* message, or before the "cannot clear" report that precedes the message
FailingCheckIdx ==
    IF log[Len(log) - 1].k = "crit" THEN Len(log) - 2 ELSE Len(log) - 1

\* C16: a procedure that meets an unrecoverable condition returns at once.
\* When di_handle_state returns an error, the procedure that was running
\* is the last one invoked (a failed invalid+failure procedure invokes
\* neither the invalid nor the valid one, a failed invalid procedure does
\* not invoke the valid one and the alarm registers are not written), and
\* nothing but the diagnostic follows the read that failed the test: no
\* register write, no further call.
C16_StopAtFirstFailure ==
    (Recovered /\ rcState # <<0>>) =>
        /\ ProcNames[Len(ProcNames)] = RunningAt(Len(log))
        /\ "di_handle_valid_state" \notin {ProcNames[i] : i \in 1..Len(ProcNames)}
        /\ LogIdx(IsAlarmWrite) = {}
        /\ log[FailingCheckIdx].k = "read"
        /\ \A i \in (FailingCheckIdx + 1)..Len(log) : log[i].k \in {"crit", "emerg"}

\* the invalid procedure, chained from the invalid+failure one, gave up on
\* a time lock
C16_Witness ==
    /\ Recovered /\ rcState = <<-ENODEV>>
    /\ ProcNames = <<"di_handle_invalid_and_failure_state", "di_handle_invalid_state">>
    /\ log[Len(log) - 1].k = "read" /\ DCR_TCSL \in log[Len(log) - 1].v

\* the unit was found non-valid and in failure state with a tamper-class
\* status bit set
TamperedEntry ==
    /\ Recovered
    /\ Dispatched = "di_handle_invalid_and_failure_state"
    /\ EntryDSR \cap TamperStatus # {}

\* the recovery gave up asking for the given supply, having written nothing
GaveUpUntouched(supply) ==
    /\ rcState = <<-ENODEV>>
    /\ ProcWrites = <<>>
    /\ ProcNames = <<"di_handle_invalid_and_failure_state">>
    /\ IsEmerg(log[Len(log)]) /\ log[Len(log)].r = supply
    /\ hw = EntryHw

\* C17: in di_handle_invalid_and_failure_state with a tamper-class status
\* bit set, TDCHL makes it fail asking for the battery, otherwise TDCSL
\* makes it fail asking for the main supply, in both cases before any
\* register write; otherwise it writes 0 to DTCR and then writes the
\* tamper-class bits found back to DSR to clear them.
C17_TamperLockTest ==
    TamperedEntry =>
        IF DCR_TDCHL \in EntryHw.DCR THEN GaveUpUntouched("battery")
        ELSE IF DCR_TDCSL \in EntryHw.DCR THEN GaveUpUntouched("main")
        ELSE /\ Len(ProcWrites) >= 2
             /\ ProcWrites[1].r = "DTCR" /\ ProcWrites[1].v = {}
             /\ ProcWrites[2].r = "DSR" /\ ProcWrites[2].v = EntryDSR \cap TamperStatus
             /\ hw.DTCR = {} /\ hw.DSR \cap TamperStatus = {}

\* both tamper locks set, a tamper bit set: battery, nothing written
C17_Witness ==
    /\ TamperedEntry
    /\ {DCR_TDCHL, DCR_TDCSL} \subseteq EntryHw.DCR
    /\ EntryHw.DTCR # {}
    /\ GaveUpUntouched("battery")

\* the write that is to clear the security-violation flag, and the status
\* read that follows it
SvfWriteIdx == CHOOSE i \in LogIdx(IsSvfWrite) : TRUE
SvfRereadIdx ==
    CHOOSE j \in (SvfWriteIdx + 1)..Len(log) :
        /\ log[j].k = "read" /\ log[j].r = "DSR"
        /\ \A k \in (SvfWriteIdx + 1)..(j - 1) : log[k].k = "settle"

\* C18: in di_handle_invalid_and_failure_state the write of SVF to DSR is
\* followed by a read of DSR; if that read shows SVF still set the
\* procedure reports it, asks for the battery and returns the error without
\* invoking di_handle_invalid_state; di_handle_invalid_state is invoked, as
\* the next thing, only when that read shows SVF clear.
C18_VerifySvfCleared ==
    (Recovered /\ Dispatched = "di_handle_invalid_and_failure_state") =>
        /\ Cardinality(LogIdx(IsSvfWrite)) <= 1
        /\ LogIdx(IsInvalidCall) # {} => LogIdx(IsSvfWrite) # {}
        /\ LogIdx(IsSvfWrite) # {} =>
              /\ \E j \in (SvfWriteIdx + 1)..Len(log) :
                    /\ log[j].k = "read" /\ log[j].r = "DSR"
                    /\ \A k \in (SvfWriteIdx + 1)..(j - 1) : log[k].k = "settle"
              /\ IF DSR_SVF \in log[SvfRereadIdx].v
                 THEN /\ rcState = <<-ENODEV>>
                      /\ LogIdx(IsInvalidCall) = {}
                      /\ Len(log) = SvfRereadIdx + 2
                      /\ log[SvfRereadIdx + 1].k = "crit"
                      /\ IsEmerg(log[SvfRereadIdx + 2])
                      /\ log[SvfRereadIdx + 2].r = "battery"
                 ELSE LogIdx(IsInvalidCall) = {SvfRereadIdx + 1}

\* the flag would not clear and the invalid procedure was not invoked
C18_Witness ==
    /\ Recovered /\ Dispatched = "di_handle_invalid_and_failure_state"
    /\ LogIdx(IsSvfWrite) # {}
    /\ DSR_SVF \in log[SvfRereadIdx].v
    /\ LogIdx(IsInvalidCall) = {}
    /\ rcState = <<-ENODEV>>

\* the call of di_handle_invalid_state and the control register it read
InvalidCallIdx == CHOOSE c \in LogIdx(IsInvalidCall) : TRUE
InvalidDcrIdx ==
    CHOOSE j \in (InvalidCallIdx + 1)..Len(log) :
        /\ log[j].k = "read" /\ log[j].r = "DCR"
        /\ \A k \in (InvalidCallIdx + 1)..(j - 1) : ~(log[k].k = "read" /\ log[k].r = "DCR")
InvalidDcr == log[InvalidDcrIdx].v

\* C19: di_handle_invalid_state, finding TCE clear in the control register
\* it read, fails asking for the battery when TCHL is set, and otherwise
\* fails asking for the main supply when TCSL is set; finding TCE set, it
\* does not fail, whatever the lock bits are.
C19_TimeLockTest ==
    (Recovered /\ LogIdx(IsInvalidCall) # {}) =>
        IF DCR_TCE \in InvalidDcr THEN rcState = <<0>>
        ELSE IF DCR_TCHL \in InvalidDcr
        THEN /\ rcState = <<-ENODEV>>
             /\ Len(log) = InvalidDcrIdx + 1
             /\ IsEmerg(log[Len(log)]) /\ log[Len(log)].r = "battery"
        ELSE IF DCR_TCSL \in InvalidDcr
        THEN /\ rcState = <<-ENODEV>>
             /\ Len(log) = InvalidDcrIdx + 1
             /\ IsEmerg(log[Len(log)]) /\ log[Len(log)].r = "main"
        ELSE rcState = <<0>>

\* the counter was found enabled and hard locked: no failure
C19_Witness ==
    /\ Recovered /\ LogIdx(IsInvalidCall) # {}
    /\ {DCR_TCE, DCR_TCHL} \subseteq InvalidDcr
    /\ rcState = <<0>>

\* both time locks set, the counter disabled: battery
C19_HardFirst ==
    /\ Recovered /\ LogIdx(IsInvalidCall) # {}
    /\ InvalidDcr \cap {DCR_TCE, DCR_TCHL, DCR_TCSL} = {DCR_TCHL, DCR_TCSL}
    /\ log[Len(log)].r = "battery"

\* the register writes from the call of di_handle_invalid_state on, each as
\* <<register, value>>
InvalidWrites ==
    LET w == SelectSeq(SubSeq(log, InvalidCallIdx, Len(log)), IsWrite)
    IN [i \in 1..Len(w) |-> <<w[i].r, w[i].v>>]
\* the seconds di_handle_invalid_state read
InvalidSecIdx ==
    CHOOSE j \in (InvalidCallIdx + 1)..Len(log) : log[j].k = "read" /\ log[j].r = "DTCMR"
\* index in the log of the n-th register write from the call on
InvalidWriteIdx(n) ==
    CHOOSE j \in InvalidCallIdx..Len(log) :
        /\ IsWrite(log[j])
        /\ Cardinality({k \in InvalidCallIdx..j : IsWrite(log[k])}) = n
ValidCallIdx == CHOOSE c \in LogIdx(IsValidCall) : TRUE

\* C20: a di_handle_invalid_state that succeeds writes, in this order,
\* DTCR := 0, DCR := TDCSL, then (having read DTCMR and DCR) NVF to DSR, TCO
\* to DSR, DCR := the control register read | TCE, DTCMR := the seconds
\* read, and only then come the writes of di_handle_valid_state; the
\* seconds were read before NVF was cleared.
C20_InvalidWriteOrder ==
    (Recovered /\ LogIdx(IsInvalidCall) # {} /\ rcState = <<0>>) =>
        /\ Len(InvalidWrites) \in {8, 9}
        /\ SubSeq(InvalidWrites, 1, 8) =
              << <<"DTCR", {}>>, <<"DCR", {DCR_TDCSL}>>,
                 <<"DSR", {DSR_NVF}>>, <<"DSR", {DSR_TCO}>>,
                 <<"DCR", InvalidDcr \cup {DCR_TCE}>>,
                 <<"DTCMR", log[InvalidSecIdx].v>>,
                 <<"DCAMR", DCAMR_UNSET>>, <<"DCALR", 0>> >>
        /\ Len(InvalidWrites) = 9 => InvalidWrites[9] = <<"DSR", {DSR_CAF}>>
        /\ InvalidWriteIdx(2) < InvalidSecIdx
        /\ InvalidSecIdx < InvalidDcrIdx
        /\ InvalidDcrIdx < InvalidWriteIdx(3)
        /\ InvalidWriteIdx(6) < ValidCallIdx
        /\ ValidCallIdx < InvalidWriteIdx(7)

\* 12345 seconds were stored, the alarm flag was pending
C20_Witness ==
    /\ Recovered /\ LogIdx(IsInvalidCall) # {} /\ rcState = <<0>>
    /\ log[InvalidSecIdx].v = 12345
    /\ Len(InvalidWrites) = 9
    /\ InvalidWrites[6] = <<"DTCMR", 12345>>

(* ================= properties of the write synchronisation ============= *)
IsRead(e) == e.k = "read"
\* a write that crosses into the low-power domain: every one but DIER's
IsLpWrite(e) == e.k = "write" /\ e.r # "DIER"
\* the error-acknowledge write of clear_write_error at log[i]
IsAckWrite(i) ==
    /\ i > 1 /\ IsLpWrite(log[i])
    /\ log[i - 1].k = "warn" /\ log[i - 1].r = "register write error"
\* log[c] confirms the write at log[i]: its settle delay, or the poll of
\* di_write_wait that saw the write-complete flag
Confirms(i, c) ==
    \/ c = i + 1 /\ log[c].k = "settle" /\ log[c].r = log[i].r
    \/ /\ log[c].k = "poll" /\ DSR_WCF \in log[c].v.dsr
       /\ \A k \in (i + 1)..(c - 1) : ~IsWrite(log[k])
\* every read of the register written at log[i] comes after a confirmation
ConfirmedBeforeRead(i) ==
    \A j \in (i + 1)..Len(log) :
        (IsRead(log[j]) /\ log[j].r = log[i].r) =>
            \E c \in (i + 1)..(j - 1) : Confirms(i, c)

C22_WriteErrorIsError ==
    \A i \in WaitRetIdx :
        DSR_WEF \in EndPoll(i).v.dsr =>
            /\ log[i].v = -EIO
            /\ IsClearRet(log[i - 1])
            /\ IF log[i - 2].k = "err"
               THEN IsRead(log[i - 3]) /\ DSR_WEF \in log[i - 3].v
               ELSE IsRead(log[i - 2]) /\ DSR_WEF \notin log[i - 2].v

\* a write error was cleared by clear_write_error and di_write_wait
\* returned -EIO all the same
C22_Witness ==
    \E i \in WaitRetIdx :
        /\ DSR_WEF \in EndPoll(i).v.dsr
        /\ IsClearRet(log[i - 1])
        /\ IsRead(log[i - 2]) /\ DSR_WEF \notin log[i - 2].v
        /\ log[i].v = -EIO

\* C23: when a confirmed write of dryice_rtc_set_time has returned success,
\* the write that call issued has been completed by the unit: the
\* write-complete flag it saw was not left by an earlier write.
C23_SuccessIsOwnCompletion ==
    (\/ pc = "st_write" /\ ww.idx > 1
     \/ /\ pc = "idle" /\ InSetTime
        /\ IsSetTimeRet(log[Len(log)]) /\ log[Len(log)].v = 0)
        => pend = <<>>

\* di_handle_invalid_state was running when di_handle_state gave up
InvalidGaveUp ==
    /\ Recovered /\ rcState # <<0>>
    /\ LogIdx(IsInvalidCall) # {}
    /\ RunningAt(Len(log)) = "di_handle_invalid_state"

\* the status last read before di_handle_invalid_state was called
InvalidEntryDsr ==
    log[CHOOSE j \in 1..InvalidCallIdx :
            /\ IsRead(log[j]) /\ log[j].r = "DSR"
            /\ \A k \in (j + 1)..InvalidCallIdx : ~(IsRead(log[k]) /\ log[k].r = "DSR")].v

\* C24: a di_handle_invalid_state that fails on a time lock has written
\* DTCR := 0 and DCR := TDCSL and nothing else: the soft lock of the tamper
\* configuration is set, while NVF and TCO are as found, the counter is
\* not enabled and the seconds and alarm registers are as found.
C24_PartialWritesOnTimeLock ==
    InvalidGaveUp =>
        /\ InvalidWrites = << <<"DTCR", {}>>, <<"DCR", {DCR_TDCSL}>> >>
        /\ DCR_TDCSL \in hw.DCR
        /\ DCR_TCE \notin hw.DCR
        /\ DSR_NVF \in hw.DSR
        /\ hw.DSR \cap {DSR_NVF, DSR_TCO} = InvalidEntryDsr \cap {DSR_NVF, DSR_TCO}
        /\ hw.DTCMR = EntryHw.DTCMR
        /\ hw.DCAMR = EntryHw.DCAMR /\ hw.DCALR = EntryHw.DCALR
        /\ (EntryHw.DCR \cap {DCR_TDCHL, DCR_TDCSL} = {}) => hw.DTCR = {}

\* the failed recovery left the unit changed: the tamper configuration was
\* armed and unlocked at entry, and is zero and soft locked now
C24_Witness ==
    /\ InvalidGaveUp
    /\ EntryHw.DTCR # {} /\ DCR_TDCSL \notin EntryHw.DCR
    /\ hw.DTCR = {} /\ DCR_TDCSL \in hw.DCR
    /\ DSR_NVF \in hw.DSR

KpPollStep ==
    \/ keypad' # keypad
    \/ kpp'.scan # kpp.scan
    \/ kpp'.run # kpp.run
KpEnabled(key) == key[1] \in keypad.rows_en_mask /\ key[2] \in keypad.cols_en_mask
KpStableKeys == {key \in KpKeys : key[1] \in keypad.matrix_stable_state[key[2]]}

\* C26: events are reported, and the stable matrix changes, only in a scan
\* that gave the same result as each of the three scans before it, the
\* count having reached IMX_KEYPAD_SCANS_FOR_STABILITY; a scan that differs
\* from the one before stores its result as the unstable state, sets the
\* count to 0, reports nothing and leaves the stable matrix and KPSR as
\* they were.
C26_Debounce ==
    /\ [](kpp.fired # <<>> =>
            /\ kpp.run >= IMX_KEYPAD_SCANS_FOR_STABILITY + 1
            /\ keypad.stable_count = IMX_KEYPAD_SCANS_FOR_STABILITY)
    /\ [][keypad'.matrix_stable_state # keypad.matrix_stable_state =>
            /\ kpp'.run >= IMX_KEYPAD_SCANS_FOR_STABILITY + 1
            /\ keypad'.stable_count = IMX_KEYPAD_SCANS_FOR_STABILITY
            /\ kpp'.scan = <<keypad'.matrix_stable_state>>]_vars
    /\ [][(kpp.scan # <<>> /\ kpp'.scan # kpp.scan) =>
            /\ kpp'.scan = <<keypad'.matrix_unstable_state>>
            /\ keypad'.stable_count = 0
            /\ kpp'.fired = <<>>
            /\ keypad'.matrix_stable_state = keypad.matrix_stable_state
            /\ kpp'.KPSR = kpp.KPSR]_vars

\* the fourth scan in a row with the same result reported events
C26_Witness ==
    /\ kpp.fired # <<>>
    /\ kpp.run = IMX_KEYPAD_SCANS_FOR_STABILITY + 1
    /\ kpp.scan = <<keypad.matrix_stable_state>>

\* C27: the keys of the stable matrix are those whose last event was a
\* press; a poll reports a press only for a key whose last event was not a
\* press and a release only for a key whose last event was a press, each
\* key once at most; no event is reported by a scan that repeats a result
\* already reported; after four equal scans the stable matrix is their
\* result; and no key of a disabled row or column ever has an event.
C27_EventsOncePerChange ==
    /\ [](/\ KpStableKeys = {key \in KpKeys : kpp.last[key] = "press"}
          /\ \A key \in KpKeys : ~KpEnabled(key) => kpp.last[key] = "none"
          /\ \A i \in 1..Len(kpp.fired) :
                KpEnabled(<<kpp.fired[i].row, kpp.fired[i].col>>)
          /\ kpp.run > IMX_KEYPAD_SCANS_FOR_STABILITY + 1 => kpp.fired = <<>>
          /\ kpp.run >= IMX_KEYPAD_SCANS_FOR_STABILITY + 1 =>
                kpp.scan = <<keypad.matrix_stable_state>>)
    /\ [][KpPollStep =>
            \A i \in 1..Len(kpp'.fired) :
                LET e == kpp'.fired[i]
                IN /\ e.value = (kpp.last[<<e.row, e.col>>] # "press")
                   /\ \A j \in 1..Len(kpp'.fired) :
                         (j # i) => <<kpp'.fired[j].row, kpp'.fired[j].col>>
                                        # <<e.row, e.col>>]_vars

\* a key that had been reported pressed was reported released by the last
\* poll, while another key is still down
C27_Witness ==
    /\ \E i \in 1..Len(kpp.fired) :
          /\ ~kpp.fired[i].value
          /\ kpp.last[<<kpp.fired[i].row, kpp.fired[i].col>>] = "release"
    /\ KpStableKeys # {}

====
